---------------------------- MODULE Spec2Model ----------------------------
(***************************************************************************)
(* Conway's Game of Life, parallel variants.                               *)
(*                                                                         *)
(*   non_double_buffer.c   bit-packed grid updated in place by a pool of   *)
(*                         THREAD_COUNT-1 condition-variable workers plus  *)
(*                         the calling thread (variant "ndb")              *)
(*   cond_double_buffer.c  dense prev/curr grids, same pool ("cdb")        *)
(*   double_buffer.c       dense prev/curr grids, threads created and      *)
(*                         joined in every update_grid ("db")              *)
(*   single_threaded.c     the sequential reference                        *)
(*                                                                         *)
(* The macros that fix a build (THREAD_COUNT, CELL_TOT_ROW, CELL_TOT_COL)  *)
(* are held in the variable build, chosen by each specification's initial  *)
(* predicate and never changed: the sources use 8 threads on 128 x 126     *)
(* cells (4 threads on 80 x 80 in the dense variants), the model uses the  *)
(* scaled-down builds named by the bounds below.  Threads are numbered by  *)
(* their parameter block: thread 0 is the calling thread, thread t >= 1 is *)
(* info.threads[t - 1], started on &info.params[t].                        *)
(*                                                                         *)
(* Memory is sequentially consistent in the model; pthread_cond_wait has   *)
(* no spurious wake-ups except in the specifications that say so.          *)
(***************************************************************************)
EXTENDS Integers, Sequences, FiniteSets, TLC

VARIABLES
    build,            \* [variant, threads, tot_row, tot_col]: the macros of the build
    grid,             \* ndb: cell* curr_grid, a function from byte index to 0..255
    curr,             \* dense: cell** curr_grid, [-1..rows] x [-1..cols] -> BOOLEAN
    prev,             \* dense: cell** prev_grid
    params,           \* info.params[t]: row_begin, row_end and the three row buffers
    running,          \* *info.running
    signal,           \* *info.signal
    cv_mtx,           \* owner of *info.cv_mtx, or NoThread
    pc,               \* position of every thread
    ki,               \* sub_update's row index i of every thread
    kj,               \* sub_update's column index j of every thread
    di,               \* loop index of the calling thread (snapshot and join loops)
    iterate,          \* main's iterate
    should_continue,  \* main's should_continue
    gens,             \* number of update_grid calls started so far
    toggles,          \* number of mouse toggles applied so far
    hist              \* history: what the checked properties refer to

vars == <<build, grid, curr, prev, params, running, signal, cv_mtx, pc, ki, kj,
          di, iterate, should_continue, gens, toggles, hist>>

---------------------------------------------------------------------------
(* Bounds of the model.                                                    *)

\* threads of the pooled builds (the sources: 8 and 4)
ThreadBound == 2
\* rows of one thread's range: rows = threads * RowsPerThread
RowsPerThread == 2
\* bytes of one packed row: CELL_TOT_COL = 8 * RowBytes (the source: 16)
RowBytes == 1
\* update_grid calls of one run
MaxGens == 4
\* mouse toggles of one run
MaxToggles == 1
\* rows of the one-thread builds, and rows and columns of the window of
\* their initial grids that may hold live cells
SeqRows == 3
\* rows of one thread's range in the thread-per-step build, whose 4 threads
\* and rows / 4 are fixed by double_buffer.c
DbRowsPerThread == 1
\* bytes of a packed row in the grid-store builds
CellRowBytes == 2
\* set_cell calls of one run of the grid store
MaxCellOps == 2
\* the rows of the grid on which single cells are set and read
CellRows == 1

\* calls of copy_row and set_cell in a behaviour of the row-copy model
MaxRowOps == 3
\* threads, and rows per thread, of the builds whose row ranges are computed
\* the partition on its own: most threads and most rows of a build
MaxPartThreads == 4
MaxPartRows == 8
\* the one-thread builds: the columns of the window of cells that the initial
\* grids vary
SeqWindow == 3
\* the seeded runs: most worker threads of a build
SeedThreads == 2

NoThread == 0 - 1

---------------------------------------------------------------------------
(* The build's macros.                                                     *)

CELL_COL_OFFSET == 1
CELL_ROW_OFFSET == 1
\* cells per storage unit of the packed encoding: the literal 8 of get_byte_idx
PACK == 8

THREAD_COUNT == build.threads
CELL_TOT_COL == build.tot_col
CELL_TOT_ROW == build.tot_row
CELL_COL_COUNT == CELL_TOT_COL - CELL_COL_OFFSET * 2
CELL_ROW_COUNT == CELL_TOT_ROW - CELL_ROW_OFFSET * 2

Threads == 0 .. THREAD_COUNT - 1
Workers == 1 .. THREAD_COUNT - 1

---------------------------------------------------------------------------
(* C arithmetic.                                                           *)

\* a % b of C for b > 0: the remainder has the sign of a
CRem(a, b) == IF a >= 0 THEN a % b ELSE -((-a) % b)

\* e, with v evaluated first: TLC evaluates the arguments of an operator
\* only when they are used, so a loop written as a recursion would else
\* hand on an ever longer unevaluated expression
Strict(v, e) == IF v = v THEN e ELSE e

\* a bool used as an int
B2I(b) == IF b THEN 1 ELSE 0

\* byte & (1 << k) != 0
BitTest(byte, k) == (byte \div (2 ^ k)) % 2 = 1

\* (uint8_t)(byte | (1 << k))
BitOr(byte, k) == IF BitTest(byte, k) THEN byte ELSE byte + 2 ^ k

\* (uint8_t)(byte & ~(1 << k))
BitAndNot(byte, k) == IF BitTest(byte, k) THEN byte - 2 ^ k ELSE byte

---------------------------------------------------------------------------
(* Packed grid store of non_double_buffer.c.                               *)

get_byte_idx(row, col) ==
    LET row_idx == (row + CELL_ROW_OFFSET) * (CELL_TOT_COL \div PACK)
        row_byte == (col + CELL_COL_OFFSET) \div PACK
    IN  row_idx + row_byte

\* the bit index with the remainder of the floored division in place of C's
get_bit_idx_floored(col) ==
    LET row_byte == (col + CELL_COL_OFFSET) \div PACK
    IN  ((col + B2I(row_byte # 0)) % PACK) + B2I(row_byte = 0)

\* the bit index of set_cell, get_cell and get_cell_from_row:
\* (col + (row_byte != 0)) % 8 + (row_byte == 0), % truncating as in C
get_bit_idx(col) ==
    LET row_byte == (col + CELL_COL_OFFSET) \div PACK
    IN  CRem(col + B2I(row_byte # 0), PACK) + B2I(row_byte = 0)

\* set_cell with the mask assigned to the byte in place of |=
set_cell_assign(g, row, col, val) ==
    LET row_idx == (row + CELL_ROW_OFFSET) * (CELL_TOT_COL \div PACK)
        row_byte == (col + CELL_COL_OFFSET) \div PACK
        byte_idx == row_idx + row_byte
        bit_idx == CRem(col + B2I(row_byte # 0), PACK) + B2I(row_byte = 0)
    IN  IF val
        THEN [g EXCEPT ![byte_idx] = 2 ^ bit_idx]
        ELSE [g EXCEPT ![byte_idx] = BitAndNot(@, bit_idx)]

set_cell(g, row, col, val) ==
    LET row_idx == (row + CELL_ROW_OFFSET) * (CELL_TOT_COL \div PACK)
        row_byte == (col + CELL_COL_OFFSET) \div PACK
        byte_idx == row_idx + row_byte
        bit_idx == CRem(col + B2I(row_byte # 0), PACK) + B2I(row_byte = 0)
    IN  IF val
        THEN [g EXCEPT ![byte_idx] = BitOr(@, bit_idx)]
        ELSE [g EXCEPT ![byte_idx] = BitAndNot(@, bit_idx)]

\* get_cell with the bit index taken from col alone in the bytes after the
\* first
get_cell_col_bit(g, row, col) ==
    LET row_idx == (row + CELL_ROW_OFFSET) * (CELL_TOT_COL \div PACK)
        row_byte == (col + CELL_COL_OFFSET) \div PACK
        byte_idx == row_idx + row_byte
        bit_idx == CRem(col, PACK) + B2I(row_byte = 0)
    IN  BitTest(g[byte_idx], bit_idx)

get_cell(g, row, col) ==
    LET row_idx == (row + CELL_ROW_OFFSET) * (CELL_TOT_COL \div PACK)
        row_byte == (col + CELL_COL_OFFSET) \div PACK
        byte_idx == row_idx + row_byte
        bit_idx == CRem(col + B2I(row_byte # 0), PACK) + B2I(row_byte = 0)
    IN  BitTest(g[byte_idx], bit_idx)

get_cell_from_row(row, col) ==
    LET row_byte == (col + CELL_COL_OFFSET) \div PACK
        bit_idx == CRem(col + B2I(row_byte # 0), PACK) + B2I(row_byte = 0)
    IN  BitTest(row[row_byte], bit_idx)

\* copy_row with a size one byte short, the last byte of dst as calloc left it
copy_row_short(src, off) ==
    LET size == CELL_TOT_COL \div PACK
    IN  [k \in 0 .. size - 1 |-> IF k < size - 1 THEN src[off + k] ELSE 0]

\* copy_row(dst, &src[off]): the new contents of dst
copy_row(src, off) ==
    LET size == CELL_TOT_COL \div PACK
    IN  [k \in 0 .. size - 1 |-> src[off + k]]

create_row(cols) ==
    LET outer_cols == (cols + CELL_COL_OFFSET * 2) \div PACK
    IN  [k \in 0 .. outer_cols - 1 |-> 0]

\* the fill loop with the test i % 2 == 0 in place of (i - 1) % 2 == 0
RECURSIVE create_grid_fill_even(_, _, _, _)
create_grid_fill_even(g, rows, cols, n) ==
    IF n = rows * cols THEN g
    ELSE LET i == n \div cols
             j == n % cols
         IN  Strict(g, create_grid_fill_even(set_cell(g, i, j, i % 2 = 0),
                                             rows, cols, n + 1))

\* create_grid: calloc, then cell (i, j) set to ((i - 1) % 2 == 0) on the
\* unsigned i: i - 1 wraps to SIZE_MAX for i = 0, which is odd like -1
RECURSIVE create_grid_fill(_, _, _, _)
create_grid_fill(g, rows, cols, n) ==
    IF n = rows * cols THEN g
    ELSE LET i == n \div cols
             j == n % cols
         IN  Strict(g, create_grid_fill(set_cell(g, i, j, (i - 1) % 2 = 0),
                                        rows, cols, n + 1))

create_grid(rows, cols) ==
    LET outer_rows == rows + CELL_ROW_OFFSET * 2
        outer_cols == (cols + CELL_COL_OFFSET * 2) \div PACK
    IN  create_grid_fill([k \in 0 .. outer_rows * outer_cols - 1 |-> 0], rows, cols, 0)

---------------------------------------------------------------------------
(* Row ranges.                                                             *)

\* every range begun at row 0
row_begin_zero(rows, i) == 0

\* create_threads: info.params[i].row_begin = (rows / THREAD_COUNT) * i
row_begin(rows, i) == (rows \div THREAD_COUNT) * i

\* every range ended one row after its begin
row_end_one_row(rows, i) == (rows \div THREAD_COUNT) * i + 1

\* create_threads: info.params[i].row_end = (rows / THREAD_COUNT) * (i + 1)
row_end(rows, i) == (rows \div THREAD_COUNT) * (i + 1)

---------------------------------------------------------------------------
(* Row Update Kernel of non_double_buffer.c: sub_update, one cell at a     *)
(* time.  j - 1 is computed on size_t and passed as int: -1 for j = 0.     *)

alive_above(above, j) ==
    B2I(get_cell_from_row(above, j - 1))
      + B2I(get_cell_from_row(above, j))
      + B2I(get_cell_from_row(above, j + 1))

\* the left neighbour left out of the count
alive_side_right_only(cur, j) ==
    B2I(get_cell_from_row(cur, j + 1))

alive_side(cur, j) ==
    B2I(get_cell_from_row(cur, j - 1)) + B2I(get_cell_from_row(cur, j + 1))

\* the row below always read from the live grid, also below the
\* last row of the range, where it belongs to the next thread
alive_below_live(g, border, i, j, rend) ==
    B2I(get_cell(g, i + 1, j - 1)) + B2I(get_cell(g, i + 1, j))
      + B2I(get_cell(g, i + 1, j + 1))

alive_below(g, border, i, j, rend) ==
    IF i < rend - 1
    THEN B2I(get_cell(g, i + 1, j - 1))
           + B2I(get_cell(g, i + 1, j))
           + B2I(get_cell(g, i + 1, j + 1))
    ELSE B2I(get_cell_from_row(border, j - 1))
           + B2I(get_cell_from_row(border, j))
           + B2I(get_cell_from_row(border, j + 1))

alive_neighbors(g, above, cur, border, i, j, rend) ==
    alive_above(above, j) + alive_side(cur, j) + alive_below(g, border, i, j, rend)

\* the if / else if with a live cell kept under fewer than two live
\* neighbours too
sub_update_write_keep_lonely(g, i, j, n) ==
    IF get_cell(g, i, j)
    THEN IF n > 3
         THEN set_cell(g, i, j, FALSE)
         ELSE set_cell(g, i, j, TRUE)
    ELSE IF n = 3
         THEN set_cell(g, i, j, TRUE)
         ELSE g

\* the if / else if with a live cell kept under four live neighbours too
sub_update_write_keep4(g, i, j, n) ==
    IF get_cell(g, i, j)
    THEN IF n < 2 \/ n > 4
         THEN set_cell(g, i, j, FALSE)
         ELSE set_cell(g, i, j, TRUE)
    ELSE IF n = 3
         THEN set_cell(g, i, j, TRUE)
         ELSE g

\* the if / else if at the end of the column loop's body: the grid it leaves
sub_update_write(g, i, j, n) ==
    IF get_cell(g, i, j)
    THEN IF n < 2 \/ n > 3
         THEN set_cell(g, i, j, FALSE)
         ELSE set_cell(g, i, j, TRUE)
    ELSE IF n = 3
         THEN set_cell(g, i, j, TRUE)
         ELSE g

\* whether that if / else if calls set_cell at all
sub_update_writes(g, i, j, n) == get_cell(g, i, j) \/ n = 3

\* the column loop of one row, from column j on: each pass either calls
\* set_cell or leaves the grid as it is
RECURSIVE sub_update_cols(_, _, _, _, _, _, _, _)
sub_update_cols(g, above, cur, border, i, j, rend, cols) ==
    IF j = cols THEN g
    ELSE LET n == alive_neighbors(g, above, cur, border, i, j, rend)
         IN  IF sub_update_writes(g, i, j, n)
             THEN sub_update_cols(sub_update_write(g, i, j, n),
                                  above, cur, border, i, j + 1, rend, cols)
             ELSE sub_update_cols(g, above, cur, border, i, j + 1, rend, cols)

\* the row loop from row i on: copy_row(curr, row i), the columns,
\* copy_row(above, curr)
RECURSIVE sub_update(_, _, _, _, _, _)
sub_update(g, above, border, i, rend, cols) ==
    IF i = rend THEN g
    ELSE LET cur == copy_row(g, get_byte_idx(i, -1))
         IN  sub_update(sub_update_cols(g, above, cur, border, i, 0, rend, cols),
                        copy_row(cur, 0), border, i + 1, rend, cols)

\* update_grid of a build with THREAD_COUNT 1: the snapshots of rows -1 and
\* rows, then sub_update over [0, rows) on the calling thread
update_grid_one(g, rows, cols) ==
    sub_update(g, copy_row(g, get_byte_idx(-1, -1)),
               copy_row(g, get_byte_idx(rows, -1)), 0, rows, cols)

---------------------------------------------------------------------------
(* Dense grid store and kernels of cond_double_buffer.c, double_buffer.c   *)
(* and single_threaded.c: cell** with one bool per cell, indexable from -1 *)
(* to CELL_COUNT in both directions.  The model's dense builds are square  *)
(* like the sources': CELL_COUNT rows and columns.                         *)

CELL_COUNT == build.tot_row - 2

DenseIdx(rows, cols) == (-1 .. rows) \X (-1 .. cols)

\* create_grid of the dense variants: calloc, then grid[i][j] = (j + 1) % 2 == 0
dense_create_grid(rows, cols) ==
    [p \in DenseIdx(rows, cols) |->
        IF p[1] \in 0 .. rows - 1 /\ p[2] \in 0 .. cols - 1
        THEN (p[2] + 1) % 2 = 0
        ELSE FALSE]

\* the copy left out: dest as it was
copy_grid_none(dest, src, rows, cols) == dest

\* copy_grid(dest, src, rows, cols): rows 0..rows-1, cols cells from column 0
copy_grid(dest, src, rows, cols) ==
    [p \in DOMAIN dest |->
        IF p[1] \in 0 .. rows - 1 /\ p[2] \in 0 .. cols - 1 THEN src[p] ELSE dest[p]]

dense_alive_neighbors(pr, i, j) ==
    B2I(pr[<<i - 1, j - 1>>]) + B2I(pr[<<i - 1, j>>]) + B2I(pr[<<i - 1, j + 1>>])
      + B2I(pr[<<i, j - 1>>]) + B2I(pr[<<i, j + 1>>])
      + B2I(pr[<<i + 1, j - 1>>]) + B2I(pr[<<i + 1, j>>]) + B2I(pr[<<i + 1, j + 1>>])

\* that body with its test on the cell taken from curr in place of prev
dense_cell_reads_curr(cu, pr, i, j) ==
    LET n == dense_alive_neighbors(pr, i, j)
    IN  IF cu[<<i, j>>]
        THEN IF n < 2 THEN [cu EXCEPT ![<<i, j>>] = FALSE]
             ELSE IF n = 2 \/ n = 3 THEN [cu EXCEPT ![<<i, j>>] = TRUE]
             ELSE [cu EXCEPT ![<<i, j>>] = FALSE]
        ELSE IF n = 3 THEN [cu EXCEPT ![<<i, j>>] = TRUE]
             ELSE cu

\* the body of the column loop of the dense kernels (the same text in
\* cond_double_buffer.c, double_buffer.c and single_threaded.c): the new curr
dense_cell(cu, pr, i, j) ==
    LET n == dense_alive_neighbors(pr, i, j)
    IN  IF pr[<<i, j>>]
        THEN IF n < 2 THEN [cu EXCEPT ![<<i, j>>] = FALSE]
             ELSE IF n = 2 \/ n = 3 THEN [cu EXCEPT ![<<i, j>>] = TRUE]
             ELSE [cu EXCEPT ![<<i, j>>] = FALSE]
        ELSE IF n = 3 THEN [cu EXCEPT ![<<i, j>>] = TRUE]
             ELSE cu

\* whether that body assigns curr[i][j]
dense_cell_writes(pr, i, j) == pr[<<i, j>>] \/ dense_alive_neighbors(pr, i, j) = 3

\* update_grid of single_threaded.c: cells n, n + 1, ... of [0, rows) x [0, cols)
\* in row-major order
RECURSIVE st_update_from(_, _, _, _, _)
st_update_from(cu, pr, rows, cols, n) ==
    IF n = rows * cols THEN cu
    ELSE st_update_from(dense_cell(cu, pr, n \div cols, n % cols), pr, rows, cols, n + 1)

st_update_grid(cu, pr, rows, cols) == st_update_from(cu, pr, rows, cols, 0)

\* double_buffer.c, update_grid: params[i].row_begin = (rows / 4) * i
db_row_begin(rows, i) == (rows \div 4) * i

\* double_buffer.c, update_grid: params[i].row_end = (rows / 4) * (i + 1)
db_row_end(rows, i) == (rows \div 4) * (i + 1)

\* the logical cells of a packed grid as a dense grid (border included)
Logical(g, rows, cols) == [p \in DenseIdx(rows, cols) |-> get_cell(g, p[1], p[2])]

---------------------------------------------------------------------------
(* Initial states: after create_grid and create_threads.                   *)

Pooled == build.variant \in {"ndb", "cdb"}
Packed == build.variant = "ndb"

\* create_threads, the loop that fills info.params[i]
create_params(rows, cols) ==
    [i \in Threads |->
        [row_begin |-> row_begin(rows, i),
         row_end |-> row_end(rows, i),
         above_buffer |-> IF Packed THEN create_row(cols) ELSE <<>>,
         current_buffer |-> IF Packed THEN create_row(cols) ELSE <<>>,
         border_buffer |-> IF Packed THEN create_row(cols) ELSE <<>>]]

\* double_buffer.c, update_grid: the loop that fills params[i]
db_params(rows) ==
    [i \in Threads |->
        [row_begin |-> db_row_begin(rows, i),
         row_end |-> db_row_end(rows, i),
         above_buffer |-> <<>>,
         current_buffer |-> <<>>,
         border_buffer |-> <<>>]]

NoWrites == [t \in Threads |-> {}]

NoPasses == [t \in Threads |-> 0]

\* the cells of the set cells clicked one after the other on the packed grid
\* g, as handle_events does while iterate is off
RECURSIVE ndb_clicks(_, _)
ndb_clicks(g, cells) ==
    IF cells = {} THEN g
    ELSE LET c == CHOOSE c \in cells : TRUE
         IN  Strict(g, ndb_clicks(set_cell(g, c[1], c[2], ~get_cell(g, c[1], c[2])),
                                  cells \ {c}))

\* the same on a dense grid
dense_clicks(g, cells) ==
    [p \in DOMAIN g |-> IF p \in cells THEN ~g[p] ELSE g[p]]

\* main up to the while loop for the build b, then the loop run with the
\* cells of the set cells clicked and iterate left at it
InitProgram(b, cells, it) ==
    /\ build = b
    /\ grid = IF Packed
              THEN ndb_clicks(create_grid(CELL_ROW_COUNT, CELL_COL_COUNT), cells)
              ELSE <<>>
    /\ curr = IF Packed THEN <<>>
              ELSE dense_clicks(dense_create_grid(CELL_COUNT, CELL_COUNT), cells)
    /\ prev = curr
    /\ params = IF Packed THEN create_params(CELL_ROW_COUNT, CELL_COL_COUNT)
                ELSE IF Pooled THEN create_params(CELL_COUNT, CELL_COUNT)
                ELSE db_params(CELL_COUNT)
    /\ running = TRUE
    /\ signal = 0
    /\ cv_mtx = NoThread
    /\ pc = [t \in Threads |-> IF t = 0 THEN "events"
                                ELSE IF Pooled THEN "check" ELSE "none"]
    /\ ki = [t \in Threads |-> 0]
    /\ kj = [t \in Threads |-> 0]
    /\ di = 0
    /\ iterate = it
    /\ should_continue = TRUE
    /\ gens = 0
    /\ toggles = 0

\* the same with the history of update_grid's calls empty
InitMain(b, cells, it) ==
    /\ InitProgram(b, cells, it)
    /\ hist = [seed |-> IF Packed THEN grid ELSE curr,
               ref |-> grid, gstart |-> IF Packed THEN grid ELSE prev, cstart |-> curr,
               wr |-> NoWrites, done |-> NoPasses]

\* main up to the while loop, for the build b
InitBuild(b) == InitMain(b, {}, FALSE)

NdbBuild ==
    [variant |-> "ndb", threads |-> ThreadBound,
     tot_row |-> ThreadBound * RowsPerThread + CELL_ROW_OFFSET * 2,
     tot_col |-> PACK * RowBytes]

\* cond_double_buffer.c scaled down: CELL_COUNT = THREAD_COUNT * RowsPerThread
CdbBuild ==
    [variant |-> "cdb", threads |-> ThreadBound,
     tot_row |-> ThreadBound * RowsPerThread + 2,
     tot_col |-> ThreadBound * RowsPerThread + 2]

\* double_buffer.c: THREAD_COUNT is 4, as the rows / 4 of its update_grid needs
DB_THREAD_COUNT == 4

DbBuild ==
    [variant |-> "db", threads |-> DB_THREAD_COUNT,
     tot_row |-> DB_THREAD_COUNT * DbRowsPerThread + 2,
     tot_col |-> DB_THREAD_COUNT * DbRowsPerThread + 2]

Init == InitBuild(NdbBuild)

InitAll == \E b \in {NdbBuild, CdbBuild, DbBuild} : InitBuild(b)

---------------------------------------------------------------------------
(* main's loop on the calling thread.                                      *)

\* the rows and columns of the build's logical grid
Rows == IF Packed THEN CELL_ROW_COUNT ELSE CELL_COUNT
Cols == IF Packed THEN CELL_COL_COUNT ELSE CELL_COUNT

\* what SDL_PollEvent can deliver: quit, space, or a mouse button released
\* over cell (row, col), one before the first and one past the last row and
\* column included
Events ==
    {[type |-> "quit", row |-> 0, col |-> 0], [type |-> "space", row |-> 0, col |-> 0]}
      \cup {[type |-> "click", row |-> r, col |-> c] : r \in -1 .. Rows, c \in -1 .. Cols}

\* handle_events' mouse branch on the packed grid without its range test
ndb_click_unchecked(g, e) ==
    set_cell(g, e.row, e.col, ~get_cell(g, e.row, e.col))

\* handle_events' mouse branch on the packed grid
ndb_click(g, e) ==
    IF e.col >= 0 /\ e.col < Cols /\ e.row >= 0 /\ e.row < Rows
    THEN set_cell(g, e.row, e.col, ~get_cell(g, e.row, e.col))
    ELSE g

\* handle_events' mouse branch on a dense grid
dense_click(g, e) ==
    IF e.row >= 0 /\ e.row < Rows /\ e.col >= 0 /\ e.col < Cols
    THEN [g EXCEPT ![<<e.row, e.col>>] = ~g[<<e.row, e.col>>]]
    ELSE g

InRange(e) == e.row >= 0 /\ e.row < Rows /\ e.col >= 0 /\ e.col < Cols

\* The history at a call of update_grid: the reference grid r (a packed
\* grid, or none) advanced by one generation of the one-thread build of
\* non_double_buffer.c, the grid the call starts from
\* (prev for the dense kernels, which read nothing else), no writes and no
\* kernel passes yet.
HistCall(r, g, c) ==
    [seed |-> hist.seed,
     ref |-> IF r = <<>> THEN r ELSE update_grid_one(r, Rows, Cols),
     gstart |-> IF Packed THEN g ELSE prev,
     cstart |-> c,
     wr |-> NoWrites,
     done |-> NoPasses]

\* Where the calling thread goes after handle_events: update_grid if iterate,
\* else the rest of the loop body.
AfterEvents(it) ==
    IF it
    THEN (IF build.variant = "ndb" THEN "snapshot"
          ELSE IF build.variant = "cdb" THEN "broadcast" ELSE "spawn")
    ELSE (IF Packed THEN "draw" ELSE "copy_grid")

\* handle_events with the event queue holding the one event e: returns false
\* on quit, flips iterate on space, toggles the cell on a click.  The model
\* starts at most MaxGens generations and applies at most MaxToggles toggles.
HandleEvent(e) ==
    /\ pc[0] = "events"
    /\ LET it == IF e.type = "space" THEN ~iterate ELSE iterate
           hit == e.type = "click" /\ InRange(e)
       IN  /\ it => gens < MaxGens
           /\ hit => toggles < MaxToggles
           /\ iterate' = it
           /\ should_continue' = (e.type # "quit")
           /\ toggles' = IF hit THEN toggles + 1 ELSE toggles
           /\ grid' = IF e.type = "click" /\ Packed THEN ndb_click(grid, e) ELSE grid
           /\ curr' = IF e.type = "click" /\ ~Packed THEN dense_click(curr, e) ELSE curr
           /\ gens' = IF it THEN gens + 1 ELSE gens
           /\ pc' = [pc EXCEPT ![0] = AfterEvents(it)]
           /\ di' = 0
           /\ hist' = LET r == IF e.type = "click" /\ Packed
                                THEN ndb_click(hist.ref, e) ELSE hist.ref
                      IN  IF it THEN HistCall(r, grid', curr') ELSE [hist EXCEPT !.ref = r]
    /\ UNCHANGED <<build, prev, params, running, signal, cv_mtx, ki, kj>>

\* handle_events with an empty event queue
HandleNoEvent ==
    /\ pc[0] = "events"
    /\ iterate => gens < MaxGens
    /\ gens' = IF iterate THEN gens + 1 ELSE gens
    /\ pc' = [pc EXCEPT ![0] = AfterEvents(iterate)]
    /\ di' = 0
    /\ hist' = IF iterate THEN HistCall(hist.ref, grid, curr) ELSE hist
    /\ UNCHANGED <<build, grid, curr, prev, params, running, signal, cv_mtx, ki, kj,
                   iterate, should_continue, toggles>>

\* copy_grid(prev_grid, curr_grid, ...) of the dense variants' loop body
MainCopyGrid ==
    /\ pc[0] = "copy_grid"
    /\ prev' = copy_grid(prev, curr, CELL_COUNT, CELL_COUNT)
    /\ pc' = [pc EXCEPT ![0] = "draw"]
    /\ UNCHANGED <<build, grid, curr, params, running, signal, cv_mtx, ki, kj, di,
                   iterate, should_continue, gens, toggles, hist>>

\* draw_grid, SDL_Delay and the loop test
MainDraw ==
    /\ pc[0] = "draw"
    /\ pc' = [pc EXCEPT ![0] = IF should_continue THEN "events"
                               ELSE IF Pooled THEN "destroy" ELSE "done"]
    /\ UNCHANGED <<build, grid, curr, prev, params, running, signal, cv_mtx, ki, kj,
                   di, iterate, should_continue, gens, toggles, hist>>

---------------------------------------------------------------------------
(* sub_update as steps of the thread t that runs it on params[t].          *)

\* where thread t goes when its sub_update returns
AfterKernel(t) ==
    IF build.variant = "db" THEN (IF t = 0 THEN "join" ELSE "exited")
    ELSE IF t = 0 THEN "cas" ELSE "signal"

\* the position at which thread t enters sub_update
KernelEntry(t) ==
    IF params[t].row_begin = params[t].row_end THEN AfterKernel(t)
    ELSE IF Packed THEN "k_row" ELSE "k_cell"

\* the history after thread t's write of cell (i, j)
HistWrite(t, i, j) == [hist EXCEPT !.wr[t] = @ \cup {<<i, j>>}]

\* the history after thread t's return from sub_update
HistPass(h, t) == [h EXCEPT !.done[t] = @ + 1]

\* the head of the row loop with every thread copying into the current
\* buffer of params[0]
KernelRow_shared_current(t) ==
    /\ pc[t] = "k_row"
    /\ params' = [params EXCEPT ![0].current_buffer =
                      copy_row(grid, get_byte_idx(ki[t], -1))]
    /\ kj' = [kj EXCEPT ![t] = 0]
    /\ pc' = [pc EXCEPT ![t] = "k_col"]
    /\ UNCHANGED <<build, grid, curr, prev, running, signal, cv_mtx, ki, di, iterate,
                   should_continue, gens, toggles, hist>>

\* the head of the row loop without the copy_row: the current buffer keeps
\* the row it held
KernelRow_keep_current(t) ==
    /\ pc[t] = "k_row"
    /\ kj' = [kj EXCEPT ![t] = 0]
    /\ pc' = [pc EXCEPT ![t] = "k_col"]
    /\ UNCHANGED <<build, grid, curr, prev, params, running, signal, cv_mtx, ki, di,
                   iterate, should_continue, gens, toggles, hist>>

\* non_double_buffer.c: the head of the row loop, copy_row(curr, row i)
KernelRow(t) ==
    /\ pc[t] = "k_row"
    /\ params' = [params EXCEPT ![t].current_buffer =
                      copy_row(grid, get_byte_idx(ki[t], -1))]
    /\ kj' = [kj EXCEPT ![t] = 0]
    /\ pc' = [pc EXCEPT ![t] = "k_col"]
    /\ UNCHANGED <<build, grid, curr, prev, running, signal, cv_mtx, ki, di, iterate,
                   should_continue, gens, toggles, hist>>

\* non_double_buffer.c: one pass of the column loop's body, for cell (i, j)
KernelCell(t) ==
    /\ pc[t] = "k_col"
    /\ kj[t] # Cols
    /\ LET P == params[t]
           n == alive_neighbors(grid, P.above_buffer, P.current_buffer,
                                P.border_buffer, ki[t], kj[t], P.row_end)
       IN  /\ grid' = sub_update_write(grid, ki[t], kj[t], n)
           /\ hist' = IF sub_update_writes(grid, ki[t], kj[t], n)
                      THEN HistWrite(t, ki[t], kj[t])
                      ELSE hist
    /\ kj' = [kj EXCEPT ![t] = @ + 1]
    /\ UNCHANGED <<build, curr, prev, params, running, signal, cv_mtx, pc, ki, di,
                   iterate, should_continue, gens, toggles>>

\* the end of the column loop without the copy_row: the above buffer keeps
\* the row it held
KernelRowEnd_keep_above(t) ==
    /\ pc[t] = "k_col"
    /\ kj[t] = Cols
    /\ ki' = [ki EXCEPT ![t] = @ + 1]
    /\ pc' = [pc EXCEPT ![t] = IF ki[t] + 1 = params[t].row_end
                               THEN AfterKernel(t) ELSE "k_row"]
    /\ hist' = IF ki[t] + 1 = params[t].row_end THEN HistPass(hist, t) ELSE hist
    /\ UNCHANGED <<build, grid, curr, prev, params, running, signal, cv_mtx, kj, di,
                   iterate, should_continue, gens, toggles>>

\* non_double_buffer.c: the end of the column loop, copy_row(above, curr), ++i
KernelRowEnd(t) ==
    /\ pc[t] = "k_col"
    /\ kj[t] = Cols
    /\ params' = [params EXCEPT ![t].above_buffer = copy_row(params[t].current_buffer, 0)]
    /\ ki' = [ki EXCEPT ![t] = @ + 1]
    /\ pc' = [pc EXCEPT ![t] = IF ki[t] + 1 = params[t].row_end
                               THEN AfterKernel(t) ELSE "k_row"]
    /\ hist' = IF ki[t] + 1 = params[t].row_end THEN HistPass(hist, t) ELSE hist
    /\ UNCHANGED <<build, grid, curr, prev, running, signal, cv_mtx, kj, di, iterate,
                   should_continue, gens, toggles>>

\* the dense kernels: one pass of the column loop's body, for cell (i, j),
\* and the loop increments that follow it
DenseCell(t) ==
    /\ pc[t] = "k_cell"
    /\ curr' = dense_cell(curr, prev, ki[t], kj[t])
    /\ LET rowdone == kj[t] + 1 = Cols
           done == rowdone /\ ki[t] + 1 = params[t].row_end
           h == IF dense_cell_writes(prev, ki[t], kj[t])
                THEN HistWrite(t, ki[t], kj[t]) ELSE hist
       IN  /\ kj' = [kj EXCEPT ![t] = IF rowdone THEN 0 ELSE @ + 1]
           /\ ki' = [ki EXCEPT ![t] = IF rowdone THEN @ + 1 ELSE @]
           /\ pc' = [pc EXCEPT ![t] = IF done THEN AfterKernel(t) ELSE "k_cell"]
           /\ hist' = IF done THEN HistPass(h, t) ELSE h
    /\ UNCHANGED <<build, grid, prev, params, running, signal, cv_mtx, di, iterate,
                   should_continue, gens, toggles>>

---------------------------------------------------------------------------
(* update_grid of the pooled variants, on the calling thread.              *)

\* one pass of that loop with the border buffer left as it was
UpdateSnapshot_no_border ==
    /\ pc[0] = "snapshot"
    /\ di # THREAD_COUNT
    /\ LET P == params[di]
       IN  params' = [params EXCEPT
                ![di].above_buffer = copy_row(grid, get_byte_idx(P.row_begin - 1, -1)),
                ![di].current_buffer = copy_row(grid, get_byte_idx(P.row_begin, -1))]
    /\ di' = di + 1
    /\ pc' = [pc EXCEPT ![0] = IF di + 1 = THREAD_COUNT THEN "broadcast" ELSE "snapshot"]
    /\ UNCHANGED <<build, grid, curr, prev, running, signal, cv_mtx, ki, kj, iterate,
                   should_continue, gens, toggles, hist>>

\* one pass of that loop with the above buffer filled from row row_begin
UpdateSnapshot_above_from_begin ==
    /\ pc[0] = "snapshot"
    /\ di # THREAD_COUNT
    /\ LET P == params[di]
       IN  params' = [params EXCEPT
                ![di].above_buffer = copy_row(grid, get_byte_idx(P.row_begin, -1)),
                ![di].current_buffer = copy_row(grid, get_byte_idx(P.row_begin, -1)),
                ![di].border_buffer = copy_row(grid, get_byte_idx(P.row_end, -1))]
    /\ di' = di + 1
    /\ pc' = [pc EXCEPT ![0] = IF di + 1 = THREAD_COUNT THEN "broadcast" ELSE "snapshot"]
    /\ UNCHANGED <<build, grid, curr, prev, running, signal, cv_mtx, ki, kj, iterate,
                   should_continue, gens, toggles, hist>>

\* non_double_buffer.c: one pass of the loop that refreshes params[di]'s
\* buffers from rows row_begin - 1, row_begin and row_end
UpdateSnapshot ==
    /\ pc[0] = "snapshot"
    /\ di # THREAD_COUNT
    /\ LET P == params[di]
       IN  params' = [params EXCEPT
                ![di].above_buffer = copy_row(grid, get_byte_idx(P.row_begin - 1, -1)),
                ![di].current_buffer = copy_row(grid, get_byte_idx(P.row_begin, -1)),
                ![di].border_buffer = copy_row(grid, get_byte_idx(P.row_end, -1))]
    /\ di' = di + 1
    /\ pc' = [pc EXCEPT ![0] = IF di + 1 = THREAD_COUNT THEN "broadcast" ELSE "snapshot"]
    /\ UNCHANGED <<build, grid, curr, prev, running, signal, cv_mtx, ki, kj, iterate,
                   should_continue, gens, toggles, hist>>

\* pthread_cond_broadcast: every thread blocked in pthread_cond_wait is woken
\* and has to take the mutex again; a thread not yet blocked is not affected
cond_broadcast(p) == [t \in DOMAIN p |-> IF p[t] = "blocked" THEN "woken" ELSE p[t]]

\* pthread_cond_broadcast(info->cv), then sub_update is entered on params[0]
UpdateBroadcast ==
    /\ pc[0] = "broadcast"
    /\ pc' = [cond_broadcast(pc) EXCEPT ![0] = KernelEntry(0)]
    /\ ki' = [ki EXCEPT ![0] = params[0].row_begin]
    /\ kj' = [kj EXCEPT ![0] = 0]
    /\ UNCHANGED <<build, grid, curr, prev, params, running, signal, cv_mtx, di,
                   iterate, should_continue, gens, toggles, hist>>

\* the compare-and-swap loop left with signal as it was
UpdateCas_no_reset ==
    /\ pc[0] = "cas"
    /\ signal = THREAD_COUNT - 1
    /\ pc' = [pc EXCEPT ![0] = IF Packed THEN "draw" ELSE "copy_grid"]
    /\ UNCHANGED <<build, grid, curr, prev, params, running, signal, cv_mtx, ki, kj,
                   di, iterate, should_continue, gens, toggles, hist>>

\* the compare-and-swap loop left whatever signal holds
UpdateCas_no_wait ==
    /\ pc[0] = "cas"
    /\ signal' = 0
    /\ pc' = [pc EXCEPT ![0] = IF Packed THEN "draw" ELSE "copy_grid"]
    /\ UNCHANGED <<build, grid, curr, prev, params, running, cv_mtx, ki, kj, di,
                   iterate, should_continue, gens, toggles, hist>>

\* the compare-and-swap loop left one worker early
UpdateCas_one_short ==
    /\ pc[0] = "cas"
    /\ signal = THREAD_COUNT - 2
    /\ signal' = 0
    /\ pc' = [pc EXCEPT ![0] = IF Packed THEN "draw" ELSE "copy_grid"]
    /\ UNCHANGED <<build, grid, curr, prev, params, running, cv_mtx, ki, kj, di,
                   iterate, should_continue, gens, toggles, hist>>

\* the compare-and-swap loop: leaves when signal is THREAD_COUNT - 1 and
\* stores 0; any other value (or a spurious failure) repeats the loop
UpdateCas ==
    /\ pc[0] = "cas"
    /\ signal = THREAD_COUNT - 1
    /\ signal' = 0
    /\ pc' = [pc EXCEPT ![0] = IF Packed THEN "draw" ELSE "copy_grid"]
    /\ UNCHANGED <<build, grid, curr, prev, params, running, cv_mtx, ki, kj, di,
                   iterate, should_continue, gens, toggles, hist>>

---------------------------------------------------------------------------
(* thread_execution of the pooled variants, on thread t >= 1.              *)

\* while (atomic_load(args.running))
ThreadCheck(t) ==
    /\ pc[t] = "check"
    /\ pc' = [pc EXCEPT ![t] = IF running THEN "lock" ELSE "exited"]
    /\ UNCHANGED <<build, grid, curr, prev, params, running, signal, cv_mtx, ki, kj,
                   di, iterate, should_continue, gens, toggles, hist>>

\* pthread_mutex_lock(args.cv_mtx)
ThreadLock(t) ==
    /\ pc[t] = "lock"
    /\ cv_mtx = NoThread
    /\ cv_mtx' = t
    /\ pc' = [pc EXCEPT ![t] = "wait"]
    /\ UNCHANGED <<build, grid, curr, prev, params, running, signal, ki, kj, di,
                   iterate, should_continue, gens, toggles, hist>>

\* pthread_cond_wait, first half: release the mutex and block on the
\* condition variable
ThreadWait(t) ==
    /\ pc[t] = "wait"
    /\ cv_mtx' = NoThread
    /\ pc' = [pc EXCEPT ![t] = "blocked"]
    /\ UNCHANGED <<build, grid, curr, prev, params, running, signal, ki, kj, di,
                   iterate, should_continue, gens, toggles, hist>>

\* pthread_cond_wait, second half: woken, take the mutex again and return
ThreadWake(t) ==
    /\ pc[t] = "woken"
    /\ cv_mtx = NoThread
    /\ cv_mtx' = t
    /\ pc' = [pc EXCEPT ![t] = "unlock"]
    /\ UNCHANGED <<build, grid, curr, prev, params, running, signal, ki, kj, di,
                   iterate, should_continue, gens, toggles, hist>>

\* pthread_mutex_unlock(args.cv_mtx), then sub_update is entered on params[t]
ThreadUnlock(t) ==
    /\ pc[t] = "unlock"
    /\ cv_mtx' = NoThread
    /\ pc' = [pc EXCEPT ![t] = KernelEntry(t)]
    /\ ki' = [ki EXCEPT ![t] = params[t].row_begin]
    /\ kj' = [kj EXCEPT ![t] = 0]
    /\ UNCHANGED <<build, grid, curr, prev, params, running, signal, di, iterate,
                   should_continue, gens, toggles, hist>>

\* the counter raised by two for one pass
ThreadSignal_twice(t) ==
    /\ pc[t] = "signal"
    /\ signal' = signal + 2
    /\ pc' = [pc EXCEPT ![t] = "check"]
    /\ UNCHANGED <<build, grid, curr, prev, params, running, cv_mtx, ki, kj, di,
                   iterate, should_continue, gens, toggles, hist>>

\* atomic_fetch_add(args.signal, 1)
ThreadSignal(t) ==
    /\ pc[t] = "signal"
    /\ signal' = signal + 1
    /\ pc' = [pc EXCEPT ![t] = "check"]
    /\ UNCHANGED <<build, grid, curr, prev, params, running, cv_mtx, ki, kj, di,
                   iterate, should_continue, gens, toggles, hist>>

---------------------------------------------------------------------------
(* destroy_threads, on the calling thread.                                 *)

\* atomic_store(info->running, false)
DestroyStore ==
    /\ pc[0] = "destroy"
    /\ running' = FALSE
    /\ pc' = [pc EXCEPT ![0] = "destroy_broadcast"]
    /\ UNCHANGED <<build, grid, curr, prev, params, signal, cv_mtx, ki, kj, di,
                   iterate, should_continue, gens, toggles, hist>>

\* pthread_cond_broadcast(info->cv)
DestroyBroadcast ==
    /\ pc[0] = "destroy_broadcast"
    /\ pc' = [cond_broadcast(pc) EXCEPT ![0] = IF THREAD_COUNT = 1 THEN "free" ELSE "join"]
    /\ di' = 0
    /\ UNCHANGED <<build, grid, curr, prev, params, running, signal, cv_mtx, ki, kj,
                   iterate, should_continue, gens, toggles, hist>>

\* one pass of the join loop that does not wait for the thread to return
DestroyJoin_no_wait ==
    /\ pc[0] = "join"
    /\ Pooled
    /\ di' = di + 1
    /\ pc' = [pc EXCEPT ![0] = IF di + 1 = THREAD_COUNT - 1 THEN "free" ELSE "join"]
    /\ UNCHANGED <<build, grid, curr, prev, params, running, signal, cv_mtx, ki, kj,
                   iterate, should_continue, gens, toggles, hist>>

\* one pass of the join loop: pthread_join(info->threads[di]) returns once
\* that thread has returned from thread_execution
DestroyJoin ==
    /\ pc[0] = "join"
    /\ Pooled
    /\ pc[di + 1] = "exited"
    /\ di' = di + 1
    /\ pc' = [pc EXCEPT ![0] = IF di + 1 = THREAD_COUNT - 1 THEN "free" ELSE "join"]
    /\ UNCHANGED <<build, grid, curr, prev, params, running, signal, cv_mtx, ki, kj,
                   iterate, should_continue, gens, toggles, hist>>

\* the frees and destroys that end destroy_threads, and main's free of the grid
DestroyFree ==
    /\ pc[0] = "free"
    /\ pc' = [pc EXCEPT ![0] = "done"]
    /\ UNCHANGED <<build, grid, curr, prev, params, running, signal, cv_mtx, ki, kj,
                   di, iterate, should_continue, gens, toggles, hist>>

---------------------------------------------------------------------------
(* update_grid of double_buffer.c, on the calling thread.                  *)

\* the params loop, the pthread_create loop, then sub_update(&params[0]) is
\* entered; a created thread starts in sub_update on its own params
DbSpawn ==
    /\ pc[0] = "spawn"
    /\ params' = db_params(CELL_COUNT)
    /\ pc' = [t \in Threads |-> "k_cell"]
    /\ ki' = [t \in Threads |-> params'[t].row_begin]
    /\ kj' = [t \in Threads |-> 0]
    /\ UNCHANGED <<build, grid, curr, prev, running, signal, cv_mtx, di, iterate,
                   should_continue, gens, toggles, hist>>

\* one pass of the join loop that does not wait for the thread to return
DbJoin_no_wait ==
    /\ pc[0] = "join"
    /\ ~Pooled
    /\ di' = di + 1
    /\ pc' = [pc EXCEPT ![0] = IF di + 1 = THREAD_COUNT - 1 THEN "copy_grid" ELSE "join"]
    /\ UNCHANGED <<build, grid, curr, prev, params, running, signal, cv_mtx, ki, kj,
                   iterate, should_continue, gens, toggles, hist>>

\* one pass of the join loop: pthread_join(threads[di]) returns once that
\* thread has returned from sub_update
DbJoin ==
    /\ pc[0] = "join"
    /\ ~Pooled
    /\ pc[di + 1] = "exited"
    /\ di' = di + 1
    /\ pc' = [pc EXCEPT ![di + 1] = "none",
                        ![0] = IF di + 1 = THREAD_COUNT - 1 THEN "copy_grid" ELSE "join"]
    /\ UNCHANGED <<build, grid, curr, prev, params, running, signal, cv_mtx, ki, kj,
                   iterate, should_continue, gens, toggles, hist>>

---------------------------------------------------------------------------
(* The in-place pool of non_double_buffer.c.                               *)

MainNext ==
    \/ \E e \in Events : HandleEvent(e)
    \/ HandleNoEvent
    \/ MainDraw

PoolNext ==
    \/ UpdateBroadcast
    \/ UpdateCas
    \/ \E t \in Workers : ThreadCheck(t)
    \/ \E t \in Workers : ThreadLock(t)
    \/ \E t \in Workers : ThreadWait(t)
    \/ \E t \in Workers : ThreadWake(t)
    \/ \E t \in Workers : ThreadUnlock(t)
    \/ \E t \in Workers : ThreadSignal(t)
    \/ DestroyStore
    \/ DestroyBroadcast
    \/ DestroyJoin
    \/ DestroyFree

NdbKernelNext ==
    \/ UpdateSnapshot
    \/ \E t \in Threads : KernelRow(t)
    \/ \E t \in Threads : KernelCell(t)
    \/ \E t \in Threads : KernelRowEnd(t)

Next == MainNext \/ PoolNext \/ NdbKernelNext

Spec == Init /\ [][Next]_vars

---------------------------------------------------------------------------
(* The same pool, with key presses only, under fair scheduling: a worker   *)
(* that can take a step eventually takes one, and so does the calling      *)
(* thread inside update_grid and inside destroy_threads (when it calls     *)
(* them is up to the events).                                              *)

\* the key presses among the events
KeyEvents == {e \in Events : e.type # "click"}

\* update_grid on the calling thread
UpdateNext ==
    \/ UpdateSnapshot
    \/ UpdateBroadcast
    \/ KernelRow(0)
    \/ KernelCell(0)
    \/ KernelRowEnd(0)
    \/ UpdateCas

\* destroy_threads on the calling thread
DestroyNext ==
    \/ DestroyStore
    \/ DestroyBroadcast
    \/ DestroyJoin
    \/ DestroyFree

DriverNext ==
    \/ \E e \in KeyEvents : HandleEvent(e)
    \/ HandleNoEvent
    \/ MainDraw
    \/ UpdateNext
    \/ DestroyNext

ThreadNext(t) ==
    \/ ThreadCheck(t)
    \/ ThreadLock(t)
    \/ ThreadWait(t)
    \/ ThreadWake(t)
    \/ ThreadUnlock(t)
    \/ ThreadSignal(t)
    \/ KernelRow(t)
    \/ KernelCell(t)
    \/ KernelRowEnd(t)

FairNext == DriverNext \/ \E t \in Workers : ThreadNext(t)

FairSpec ==
    /\ Init
    /\ [][FairNext]_vars
    /\ WF_vars(UpdateNext)
    /\ WF_vars(DestroyNext)
    /\ \A t \in 1 .. ThreadBound - 1 : WF_vars(ThreadNext(t))

---------------------------------------------------------------------------
(* The three threaded variants side by side.                               *)

DenseNext ==
    \/ \E t \in Threads : DenseCell(t)
    \/ MainCopyGrid

DbNext ==
    \/ DbSpawn
    \/ DbJoin

NextAll == MainNext \/ PoolNext \/ NdbKernelNext \/ DenseNext \/ DbNext

SpecAll == InitAll /\ [][NextAll]_vars

---------------------------------------------------------------------------
(* double_buffer.c alone, every started thread scheduled again and again.  *)

InitDb == InitBuild(DbBuild)

DbOnlyNext == MainNext \/ DenseNext \/ DbNext

\* update_grid's own steps on the calling thread
DbUpdateNext ==
    \/ DbSpawn
    \/ DenseCell(0)
    \/ DbJoin

\* A thread pthread_create started keeps being scheduled until sub_update
\* returns, and so does the calling thread inside update_grid; nothing is
\* asked of main's loop outside update_grid.
FairDbSpec ==
    /\ InitDb
    /\ [][DbOnlyNext]_vars
    /\ WF_vars(DbUpdateNext)
    /\ \A t \in 1 .. DB_THREAD_COUNT - 1 : WF_vars(DenseCell(t))

---------------------------------------------------------------------------
(* The pooled variants built with THREAD_COUNT 1: update_grid runs the     *)
(* whole kernel on the calling thread.  The loop starts with iterate on,   *)
(* from the created grid with any set of cells of a window clicked.        *)

NdbSeqBuild ==
    [variant |-> "ndb", threads |-> 1,
     tot_row |-> SeqRows + CELL_ROW_OFFSET * 2,
     tot_col |-> PACK * RowBytes]

CdbSeqBuild ==
    [variant |-> "cdb", threads |-> 1, tot_row |-> SeqRows + 2, tot_col |-> SeqRows + 2]

\* the sets of clicked cells: any cells of the first or of the last SeqWindow
\* columns of build b's grid
SeqCells(b) ==
    UNION {SUBSET ((0 .. b.tot_row - 3) \X (c0 .. c0 + SeqWindow - 1)) :
               c0 \in {0, b.tot_col - 2 - SeqWindow}}

InitSeq ==
    \E b \in {NdbSeqBuild, CdbSeqBuild} :
        \E cells \in SeqCells(b) : InitMain(b, cells, TRUE)

SeqNext ==
    \/ HandleNoEvent
    \/ UpdateSnapshot
    \/ UpdateBroadcast
    \/ KernelRow(0)
    \/ KernelCell(0)
    \/ KernelRowEnd(0)
    \/ DenseCell(0)
    \/ UpdateCas
    \/ MainCopyGrid
    \/ MainDraw

SpecSeq == InitSeq /\ [][SeqNext]_vars

---------------------------------------------------------------------------
(* The packed store on its own: set_cell called on any cell of the grid,   *)
(* border included, of builds whose rows are 1 .. CellRowBytes bytes long. *)
(* The history holds the last call and the grid it was made on.            *)

CellBuilds ==
    {[variant |-> "ndb", threads |-> 1,
      tot_row |-> CellRows + CELL_ROW_OFFSET * 2,
      tot_col |-> PACK * k] : k \in 1 .. CellRowBytes}

\* the grids the calls start from: the created grid, or that grid with every
\* cell clicked
CellClicks(b) == {{}, (0 .. b.tot_row - 3) \X (0 .. b.tot_col - 3)}

InitCell ==
    \E b \in CellBuilds : \E cells \in CellClicks(b) :
        /\ InitProgram(b, cells, FALSE)
        /\ hist = [n |-> 0, before |-> grid, row |-> 0, col |-> 0, val |-> FALSE]

\* set_cell(grid, r, c, v)
CellSetCell(r, c, v) ==
    /\ hist.n < MaxCellOps
    /\ grid' = set_cell(grid, r, c, v)
    /\ hist' = [n |-> hist.n + 1, before |-> grid, row |-> r, col |-> c, val |-> v]
    /\ UNCHANGED <<build, curr, prev, params, running, signal, cv_mtx, pc, ki, kj, di,
                   iterate, should_continue, gens, toggles>>

CellNext == \E r \in -1 .. Rows, c \in -1 .. Cols, v \in BOOLEAN : CellSetCell(r, c, v)

CellSpec == InitCell /\ [][CellNext]_vars

---------------------------------------------------------------------------
(* A row buffer and the packed grid: copy_row from any physical row into   *)
(* the current buffer, and set_cell on any cell of the grid, border        *)
(* included.  The history holds the last copy_row: its row and the grid it *)
(* was made from.                                                          *)

InitRow ==
    \E b \in CellBuilds : \E cells \in CellClicks(b) :
        /\ InitProgram(b, cells, FALSE)
        /\ hist = [n |-> 0, copied |-> FALSE, row |-> 0, at |-> grid]

\* copy_row(current_buffer, &grid[get_byte_idx(r, -1)])
RowCopy(r) ==
    /\ hist.n < MaxRowOps
    /\ params' = [params EXCEPT ![0].current_buffer = copy_row(grid, get_byte_idx(r, -1))]
    /\ hist' = [n |-> hist.n + 1, copied |-> TRUE, row |-> r, at |-> grid]
    /\ UNCHANGED <<build, grid, curr, prev, running, signal, cv_mtx, pc, ki, kj, di,
                   iterate, should_continue, gens, toggles>>

\* set_cell(grid, r, c, v)
RowSetCell(r, c, v) ==
    /\ hist.n < MaxRowOps
    /\ grid' = set_cell(grid, r, c, v)
    /\ hist' = [hist EXCEPT !.n = @ + 1]
    /\ UNCHANGED <<build, curr, prev, params, running, signal, cv_mtx, pc, ki, kj, di,
                   iterate, should_continue, gens, toggles>>

RowNext ==
    \/ \E r \in -1 .. Rows : RowCopy(r)
    \/ \E r \in -1 .. Rows, c \in -1 .. Cols, v \in BOOLEAN : RowSetCell(r, c, v)

RowSpec == InitRow /\ [][RowNext]_vars

---------------------------------------------------------------------------
(* The partition on its own: the loop that fills params[0 .. THREAD_COUNT) *)
(* in create_threads (pooled variants) and in update_grid (double_buffer.c)*)
(* for builds of 1 .. MaxPartThreads threads and 1 .. MaxPartRows rows.    *)
(* non_double_buffer.c refuses to compile unless THREAD_COUNT divides the  *)
(* rows; double_buffer.c is written for THREAD_COUNT 4.                    *)

PartBuilds ==
    {[variant |-> "ndb", threads |-> q[1], tot_row |-> q[2] + CELL_ROW_OFFSET * 2,
      tot_col |-> PACK] :
         q \in {q \in (1 .. MaxPartThreads) \X (1 .. MaxPartRows) : q[2] % q[1] = 0}}
      \cup {[variant |-> "cdb", threads |-> n, tot_row |-> r + 2, tot_col |-> r + 2] :
                n \in 1 .. MaxPartThreads, r \in 1 .. MaxPartRows}
      \cup {[variant |-> "db", threads |-> DB_THREAD_COUNT, tot_row |-> r + 2,
             tot_col |-> r + 2] : r \in 1 .. MaxPartRows}

InitPart ==
    \E b \in PartBuilds :
        /\ build = b
        /\ grid = IF Packed THEN create_grid(CELL_ROW_COUNT, CELL_COL_COUNT) ELSE <<>>
        /\ curr = IF Packed THEN <<>> ELSE dense_create_grid(CELL_COUNT, CELL_COUNT)
        /\ prev = curr
        /\ params = <<>>
        /\ running = TRUE
        /\ signal = 0
        /\ cv_mtx = NoThread
        /\ pc = [t \in Threads |-> IF t = 0 THEN "params" ELSE "none"]
        /\ ki = [t \in Threads |-> 0]
        /\ kj = [t \in Threads |-> 0]
        /\ di = 0
        /\ iterate = FALSE
        /\ should_continue = TRUE
        /\ gens = 0
        /\ toggles = 0
        /\ hist = [seed |-> IF Packed THEN grid ELSE curr,
               ref |-> grid, gstart |-> IF Packed THEN grid ELSE prev, cstart |-> curr,
                   wr |-> NoWrites, done |-> NoPasses]

\* one pass of the loop: params[di] is filled
PartPass ==
    /\ pc[0] = "params"
    /\ di # THREAD_COUNT
    /\ params' = [i \in 0 .. di |->
                      IF i < di THEN params[i]
                      ELSE IF Pooled THEN create_params(Rows, Cols)[i]
                      ELSE db_params(Rows)[i]]
    /\ di' = di + 1
    /\ pc' = [pc EXCEPT ![0] = IF di + 1 = THREAD_COUNT THEN "events" ELSE "params"]
    /\ UNCHANGED <<build, grid, curr, prev, running, signal, cv_mtx, ki, kj, iterate,
                   should_continue, gens, toggles, hist>>

PartNext == PartPass

PartSpec == InitPart /\ [][PartNext]_vars

---------------------------------------------------------------------------
(* Seeded runs of the pooled variants: the loop starts with iterate on,    *)
(* from a grid whose live cells are a chosen pattern (the created grid     *)
(* with the cells that differ clicked), and no event arrives.              *)

\* the cells (border left out) of the build's grid
Cells == (0 .. Rows - 1) \X (0 .. Cols - 1)

\* whether create_grid of the build leaves cell p alive
CreatedAlive(p) ==
    IF Packed THEN get_cell(create_grid(Rows, Cols), p[1], p[2])
    ELSE dense_create_grid(Rows, Cols)[p]

\* the clicks that turn the created grid into the grid whose live cells are
\* those of the set live
SeedClicks(live) == {p \in Cells : CreatedAlive(p) # (p \in live)}

\* the blinker of centre (r, c), upright and lying
BlinkerV(r, c) == {<<r - 1, c>>, <<r, c>>, <<r + 1, c>>}
BlinkerH(r, c) == {<<r, c - 1>>, <<r, c>>, <<r, c + 1>>}

\* the rows next to the boundary between the ranges of threads 0 and 1 of
\* a build of rows rows and two threads
BoundaryRows(rows) == {rows \div 2 - 1, rows \div 2}

\* the blinkers through that boundary, in a grid of cols columns
Blinkers(rows, cols) ==
    UNION {{BlinkerV(r, c), BlinkerH(r, c)} :
               r \in BoundaryRows(rows), c \in 1 .. cols - 2}

NdbSeedBuild(n) ==
    [variant |-> "ndb", threads |-> n,
     tot_row |-> SeedThreads * RowsPerThread + CELL_ROW_OFFSET * 2,
     tot_col |-> PACK * RowBytes]

CdbSeedBuild(n) ==
    [variant |-> "cdb", threads |-> n,
     tot_row |-> SeedThreads * RowsPerThread + 2,
     tot_col |-> SeedThreads * RowsPerThread + 2]

\* the glider whose 3 x 3 box has its first cell at (r, c); four generations
\* later it is GliderAt(r + 1, c + 1)
GliderAt(r, c) ==
    {<<r, c + 1>>, <<r + 1, c + 2>>, <<r + 2, c>>, <<r + 2, c + 1>>, <<r + 2, c + 2>>}

\* the gliders that have room for four generations in a grid of rows x cols
Gliders(rows, cols) == {GliderAt(r, c) : r \in 0 .. rows - 4, c \in 0 .. cols - 4}

\* the seeds of build b: a glider on the packed grid; up to SeedThreads
\* threads also no live cell and one live cell, and for two threads on the
\* packed grid the blinkers through the boundary
Seeds(b) ==
    (IF b.variant = "ndb" THEN Gliders(b.tot_row - 2, b.tot_col - 2) ELSE {})
      \cup (IF b.threads <= SeedThreads
             THEN {{}} \cup {{p} : p \in (0 .. b.tot_row - 3) \X (0 .. b.tot_col - 3)}
             ELSE {})
      \cup (IF b.variant = "ndb" /\ b.threads = 2
             THEN Blinkers(b.tot_row - 2, b.tot_col - 2)
             ELSE {})

\* the numbers of threads up to n that divide the rows of the seeded builds
SeedDivisors(n) == {m \in 1 .. n : (SeedThreads * RowsPerThread) % m = 0}

\* the builds: both pools with up to SeedThreads threads, the in-place pool
\* with up to twice as many
SeedBuilds ==
    {NdbSeedBuild(n) : n \in SeedDivisors(2 * SeedThreads)}
      \cup {CdbSeedBuild(n) : n \in SeedDivisors(SeedThreads)}

InitSeed ==
    \E b \in SeedBuilds : \E live \in Seeds(b) : InitMain(b, SeedClicks(live), TRUE)

SeedNext ==
    \/ HandleNoEvent
    \/ MainDraw
    \/ UpdateSnapshot
    \/ UpdateBroadcast
    \/ UpdateCas
    \/ \E t \in Threads : KernelRow(t)
    \/ \E t \in Threads : KernelCell(t)
    \/ \E t \in Threads : KernelRowEnd(t)
    \/ \E t \in Threads : DenseCell(t)
    \/ MainCopyGrid
    \/ \E t \in Workers : ThreadCheck(t)
    \/ \E t \in Workers : ThreadLock(t)
    \/ \E t \in Workers : ThreadWait(t)
    \/ \E t \in Workers : ThreadWake(t)
    \/ \E t \in Workers : ThreadUnlock(t)
    \/ \E t \in Workers : ThreadSignal(t)

SpecSeed == InitSeed /\ [][SeedNext]_vars

---------------------------------------------------------------------------
(* The two pools on the same logical grid: non_double_buffer.c and         *)
(* cond_double_buffer.c built for the same numbers of rows and columns     *)
(* (a packed row of RowBytes bytes holds PACK * RowBytes - 2 cells, and    *)
(* the dense grid is square), seeded with the same live cells, iterate on, *)
(* no event.  The history's reference grid is in both the packed seed,     *)
(* advanced by the one-thread build of non_double_buffer.c.                *)

EquivBuilds ==
    {[variant |-> v, threads |-> n, tot_row |-> PACK * RowBytes, tot_col |-> PACK * RowBytes] :
        v \in {"ndb", "cdb"},
        n \in {m \in 1 .. SeedThreads : (PACK * RowBytes - 2) % m = 0}}

\* the live cells create_grid of non_double_buffer.c and of
\* cond_double_buffer.c leave
NdbCreated == {p \in Cells : (p[1] + 1) % 2 = 0}
CdbCreated == {p \in Cells : (p[2] + 1) % 2 = 0}

\* the seeds: two gliders, a blinker through the middle, the two created
\* patterns
EquivSeeds ==
    {GliderAt(0, 0), GliderAt(Rows - 4, Cols - 4), BlinkerV(Rows \div 2, Cols \div 2),
     NdbCreated, CdbCreated}

\* the packed grid whose live cells are those of the set live
PackedSeed(live) ==
    LET g == create_grid(Rows, Cols)
    IN  ndb_clicks(g, {p \in Cells : get_cell(g, p[1], p[2]) # (p \in live)})

InitEquiv ==
    \E b \in EquivBuilds :
        /\ build = b
        /\ \E live \in EquivSeeds :
              /\ InitProgram(b, SeedClicks(live), TRUE)
              /\ hist = [seed |-> IF Packed THEN grid ELSE curr,
                         ref |-> PackedSeed(live),
                         gstart |-> IF Packed THEN grid ELSE prev, cstart |-> curr,
                         wr |-> NoWrites, done |-> NoPasses]

SpecEquiv == InitEquiv /\ [][SeedNext]_vars

---------------------------------------------------------------------------
(* The two pools with a pthread_cond_wait that may return without a        *)
(* broadcast, as POSIX allows.  Key presses only.  Each pass of a worker   *)
(* adds one to signal; the wake-ups without a broadcast stop once signal   *)
(* has reached MaxSignal, and at most MaxSpuriousGens generations start.   *)

MaxSignal == 1
MaxSpuriousGens == 2

\* pthread_cond_wait returns in thread t although nobody has broadcast: the
\* thread is woken and has to take the mutex again
ThreadSpurious(t) ==
    /\ pc[t] = "blocked"
    /\ signal < MaxSignal
    /\ pc' = [pc EXCEPT ![t] = "woken"]
    /\ UNCHANGED <<build, grid, curr, prev, params, running, signal, cv_mtx, ki, kj,
                   di, iterate, should_continue, gens, toggles, hist>>

\* the two pools with one row for each thread
SpuriousBuilds ==
    {[variant |-> "ndb", threads |-> ThreadBound,
      tot_row |-> ThreadBound + CELL_ROW_OFFSET * 2, tot_col |-> PACK * RowBytes],
     [variant |-> "cdb", threads |-> ThreadBound,
      tot_row |-> ThreadBound + 2, tot_col |-> ThreadBound + 2]}

InitSpurious == \E b \in SpuriousBuilds : InitBuild(b)

SpuriousNext ==
    \/ \E e \in KeyEvents : HandleEvent(e) /\ gens' <= MaxSpuriousGens
    \/ HandleNoEvent /\ gens' <= MaxSpuriousGens
    \/ MainDraw
    \/ PoolNext
    \/ NdbKernelNext
    \/ DenseNext
    \/ \E t \in Workers : ThreadSpurious(t)

SpecSpurious == InitSpurious /\ [][SpuriousNext]_vars

---------------------------------------------------------------------------
(* create_threads with a pthread_create that can fail.  pthread_create     *)
(* returns an error number and starts no thread when the system is out of  *)
(* resources; create_threads does not look at what it returns.  The params *)
(* loop has run; the calling thread is at the pthread_create loop.         *)

CreateBound == 3

NdbCreateBuild ==
    [variant |-> "ndb", threads |-> CreateBound,
     tot_row |-> CreateBound + CELL_ROW_OFFSET * 2,
     tot_col |-> PACK * RowBytes]

CdbCreateBuild ==
    [variant |-> "cdb", threads |-> CreateBound,
     tot_row |-> CreateBound + 2, tot_col |-> CreateBound + 2]

\* main up to create_threads' pthread_create loop: no worker exists yet
InitCreate ==
    \E b \in {NdbCreateBuild, CdbCreateBuild} :
        /\ build = b
        /\ grid = IF Packed THEN create_grid(CELL_ROW_COUNT, CELL_COL_COUNT) ELSE <<>>
        /\ curr = IF Packed THEN <<>> ELSE dense_create_grid(CELL_COUNT, CELL_COUNT)
        /\ prev = curr
        /\ params = IF Packed THEN create_params(CELL_ROW_COUNT, CELL_COL_COUNT)
                    ELSE create_params(CELL_COUNT, CELL_COUNT)
        /\ running = TRUE
        /\ signal = 0
        /\ cv_mtx = NoThread
        /\ pc = [t \in Threads |-> IF t = 0 THEN "create" ELSE "unborn"]
        /\ ki = [t \in Threads |-> 0]
        /\ kj = [t \in Threads |-> 0]
        /\ di = 0
        /\ iterate = FALSE
        /\ should_continue = TRUE
        /\ gens = 0
        /\ toggles = 0
        /\ hist = [seed |-> IF Packed THEN grid ELSE curr,
                   ref |-> grid, gstart |-> IF Packed THEN grid ELSE prev,
                   cstart |-> curr, wr |-> NoWrites, done |-> NoPasses]

\* one pass of the pthread_create loop: with ok the thread di + 1 starts
\* thread_execution, without it there is no such thread; either way the loop
\* goes on, and after the last pass create_threads returns info to main
PthreadCreate(ok) ==
    /\ pc[0] = "create"
    /\ pc' = [pc EXCEPT ![di + 1] = IF ok THEN "check" ELSE "missing",
                        ![0] = IF di + 1 = THREAD_COUNT - 1 THEN "events" ELSE "create"]
    /\ di' = IF di + 1 = THREAD_COUNT - 1 THEN 0 ELSE di + 1
    /\ UNCHANGED <<build, grid, curr, prev, params, running, signal, cv_mtx, ki, kj,
                   iterate, should_continue, gens, toggles, hist>>

\* a pass of destroy_threads' join loop for a thread that was never created:
\* info->threads[di] was not written by pthread_create, pthread_join on it
\* is undefined; it returns an error, or the process faults, or it never
\* returns (no step)
DestroyJoinMissing(outcome) ==
    /\ pc[0] = "join"
    /\ Pooled
    /\ pc[di + 1] = "missing"
    /\ di' = IF outcome = "returns" THEN di + 1 ELSE di
    /\ pc' = [pc EXCEPT ![0] = IF outcome = "fault" THEN "fault"
                               ELSE IF di + 1 = THREAD_COUNT - 1 THEN "free" ELSE "join"]
    /\ UNCHANGED <<build, grid, curr, prev, params, running, signal, cv_mtx, ki, kj,
                   iterate, should_continue, gens, toggles, hist>>

CreateNext ==
    \/ \E ok \in BOOLEAN : PthreadCreate(ok)
    \/ \E outcome \in {"returns", "fault"} : DestroyJoinMissing(outcome)
    \/ \E e \in KeyEvents : HandleEvent(e)
    \/ HandleNoEvent
    \/ MainDraw
    \/ PoolNext
    \/ NdbKernelNext
    \/ DenseNext

SpecCreate == InitCreate /\ [][CreateNext]_vars

---------------------------------------------------------------------------
(* Properties.                                                             *)

\* the calling thread is between two calls of update_grid
BetweenCalls == pc[0] \in {"events", "draw"}

\* C1: in non_double_buffer.c, whenever the calling thread is outside
\* update_grid (after k calls, k >= 0), the grid filled by the THREAD_COUNT
\* threads equals, byte for byte, the grid that k calls of the one-thread
\* build leave from the same initial grid and the same toggles, whatever the
\* interleaving of the threads was.
C1_SameAsOneWorker == BetweenCalls => grid = hist.ref

\* C1 witness: the second call has returned, both threads have written cells,
\* the grid has changed and equals the one-thread result.
C1_Witness ==
    /\ pc[0] = "draw"
    /\ gens >= 2
    /\ hist.wr[0] # {} /\ hist.wr[1] # {}
    /\ hist.done[1] = 1
    /\ grid # hist.gstart
    /\ grid = hist.ref

\* update_grid of the one-thread in-place build has returned
C2_Returned == Packed /\ THREAD_COUNT = 1 /\ pc[0] = "draw"

\* C2: with one worker, when update_grid of non_double_buffer.c returns, the
\* grid read cell by cell (border included) is the grid that update_grid of
\* single_threaded.c leaves when prev and curr both hold the grid the call
\* started from.
C2_OneWorkerIsReference ==
    C2_Returned =>
        Logical(grid, Rows, Cols) =
            LET L == Logical(hist.gstart, Rows, Cols)
            IN  st_update_grid(L, L, Rows, Cols)

\* C2 witness: the second one-worker call has returned with cells written in
\* every row, the grid changed, and equal to the reference's.
C2_Witness ==
    /\ C2_Returned
    /\ gens = 2
    /\ \A i \in 0 .. Rows - 1 : \E j \in 0 .. Cols - 1 : <<i, j>> \in hist.wr[0]
    /\ grid # hist.gstart
    /\ Logical(grid, Rows, Cols) =
           LET L == Logical(hist.gstart, Rows, Cols)
           IN  st_update_grid(L, L, Rows, Cols)

\* the calling thread is inside update_grid of a pooled variant
InUpdate == pc[0] \in {"snapshot", "broadcast", "k_row", "k_col", "k_cell", "cas"}

\* C3: under fair scheduling of all threads, every call of update_grid on
\* the condition-variable pool eventually returns, wherever each worker is
\* in its loop when the call is made.
C3_UpdateReturns == InUpdate ~> ~InUpdate

\* C7: under fair scheduling of all threads, destroy_threads, once called,
\* eventually returns: every worker leaves its loop and every join completes.
C7_DestroyReturns == (pc[0] = "destroy") ~> (pc[0] = "done")

\* thread t is inside sub_update
InKernel(t) == pc[t] \in {"k_row", "k_col", "k_cell"}

\* the calling thread is between the return of an update_grid (or the start
\* of the loop) and the next pthread_cond_broadcast
BeforeBroadcast ==
    pc[0] \in {"events", "copy_grid", "draw", "snapshot", "broadcast",
               "destroy", "destroy_broadcast"}

\* C4: when update_grid has returned, every thread has finished one pass over
\* its row range for this generation, and from the return until the next
\* pthread_cond_broadcast no worker is inside the kernel.
C4_QuietBetweenCalls ==
    /\ (BetweenCalls /\ gens >= 1) => \A t \in Threads : hist.done[t] = 1
    /\ BeforeBroadcast => \A t \in Workers : ~InKernel(t)

\* C4 witness: update_grid has just returned, the worker has written cells
\* and finished its pass, and is back at the head of its loop or waiting.
C4_Witness ==
    /\ pc[0] = "draw"
    /\ gens >= 1
    /\ \A t \in Workers : hist.wr[t] # {} /\ hist.done[t] = 1
    /\ \A t \in Workers : pc[t] \in {"check", "lock", "wait", "blocked"}

\* the storage bytes of the packed grid that thread t has written in this
\* generation
WrittenBytes(t) == {get_byte_idx(w[1], w[2]) : w \in hist.wr[t]}

\* C5: in every generation of every threaded variant, each thread's writes
\* stay in rows [row_begin, row_end) of its own parameter block and columns
\* [0, cols); no two threads write the same cell and, in the packed
\* encoding, no two threads write the same storage byte.
C5_DisjointWrites ==
    /\ \A t \in Threads : \A w \in hist.wr[t] :
           /\ params[t].row_begin <= w[1] /\ w[1] < params[t].row_end
           /\ 0 <= w[2] /\ w[2] < Cols
    /\ \A t \in Threads : \A u \in Threads \ {t} :
           /\ hist.wr[t] \cap hist.wr[u] = {}
           /\ Packed => WrittenBytes(t) \cap WrittenBytes(u) = {}

\* C5 witness: a generation of the packed variant is complete and every
\* thread has written cells of its range, the last column included.
C5_Witness ==
    /\ Packed
    /\ pc[0] = "draw"
    /\ \A t \in Threads :
           /\ hist.done[t] = 1
           /\ \E w \in hist.wr[t] : w[2] = Cols - 1
           /\ \E w \in hist.wr[t] : w[2] = 0

\* destroy_threads has broadcast
Destroyed == pc[0] \in {"join", "free", "done"}

\* C6: in the pooled variants, between create_threads and destroy_threads
\* the counter satisfies 0 <= signal <= THREAD_COUNT - 1, and signal is 0 at
\* every pthread_cond_broadcast of update_grid.
C6_SignalRange ==
    Pooled =>
        /\ ~Destroyed => (0 <= signal /\ signal <= THREAD_COUNT - 1)
        /\ pc[0] = "broadcast" => signal = 0

\* C6 witness: the second update_grid is about to broadcast, the first one
\* having taken the counter from THREAD_COUNT - 1 back to 0.
C6_Witness ==
    /\ Pooled
    /\ pc[0] = "broadcast"
    /\ gens = 2
    /\ signal = 0

\* C8: in the packed encoding, for every row in [-1, rows], every column in
\* [-1, cols] and every boolean v, get_cell(grid, row, col) right after
\* set_cell(grid, row, col, v) returns v, as reading grid[row][col] after
\* writing it does in the dense encoding.
C8_GetAfterSet ==
    hist.n >= 1 => get_cell(grid, hist.row, hist.col) = hist.val

\* C8 witness: a cell of the last border column of a two-byte row has been
\* set to the opposite of what it held, and reads back as set.
C8_Witness ==
    /\ hist.n = 2
    /\ CELL_TOT_COL = 2 * PACK
    /\ hist.col = Cols
    /\ hist.val # get_cell(hist.before, hist.row, hist.col)
    /\ get_cell(grid, hist.row, hist.col) = hist.val

\* the rows of thread i's range
RowRange(i) == params[i].row_begin .. params[i].row_end - 1

\* C9: when THREAD_COUNT divides rows, the row ranges that create_threads
\* and double_buffer.c's update_grid compute are non-empty, contiguous
\* (row_end of i is row_begin of i + 1), pairwise disjoint, and their union
\* is exactly [0, rows).
C9_Partition ==
    (pc[0] = "events" /\ Rows % THREAD_COUNT = 0) =>
        /\ \A i \in Threads : params[i].row_begin < params[i].row_end
        /\ \A i \in 0 .. THREAD_COUNT - 2 : params[i].row_end = params[i + 1].row_begin
        /\ \A i \in Threads : \A j \in Threads \ {i} : RowRange(i) \cap RowRange(j) = {}
        /\ UNION {RowRange(i) : i \in Threads} = 0 .. Rows - 1

\* C9 witness: create_threads has filled the params of a pooled build of
\* four threads and eight rows, the last range ending at row 8.
C9_Witness ==
    /\ pc[0] = "events"
    /\ Pooled
    /\ THREAD_COUNT = 4
    /\ Rows = 8
    /\ DOMAIN params = Threads
    /\ params[3].row_begin = 6
    /\ params[3].row_end = 8

\* the rule of the game: the next state of a cell that is alive or not with
\* n live neighbours
Rule(alive, n) == IF alive THEN n = 2 \/ n = 3 ELSE n = 3

\* the live cells among the eight neighbours of cell (i, j) of the dense
\* view L of a grid
LiveNeighbours(L, i, j) ==
    Cardinality({p \in ((i - 1) .. (i + 1)) \X ((j - 1) .. (j + 1)) :
                     p # <<i, j>> /\ L[p]})

\* the calling thread's kernel of this generation has passed cell (i, j)
Passed(i, j) ==
    \/ i < ki[0]
    \/ i = ki[0] /\ j < kj[0] /\ pc[0] \in {"k_col", "k_cell"}

\* the calling thread is inside or just after its kernel
KernelUnderWay == pc[0] \in {"k_row", "k_col", "k_cell", "cas", "copy_grid", "draw"}

\* C10: a cell the kernel has passed holds the state the rule gives for the
\* state and the count of live neighbours (0 .. 8) it had when the call was
\* made: alive iff it was alive with 2 or 3, or dead with 3.  This for
\* sub_update of non_double_buffer.c and, where curr equalled prev on the
\* cell at the call, for the double-buffered kernel.
C10_Rule ==
    KernelUnderWay =>
        \A i \in 0 .. Rows - 1 : \A j \in 0 .. Cols - 1 :
            Passed(i, j) =>
                IF Packed
                THEN LET L == Logical(hist.gstart, Rows, Cols)
                     IN  get_cell(grid, i, j) = Rule(L[<<i, j>>], LiveNeighbours(L, i, j))
                ELSE hist.cstart[<<i, j>>] = hist.gstart[<<i, j>>] =>
                         curr[<<i, j>>] = Rule(hist.gstart[<<i, j>>],
                                               LiveNeighbours(hist.gstart, i, j))

\* C10 witness: the in-place kernel has passed cell (1, 1), which was alive
\* with four live neighbours and is now dead.
C10_Witness ==
    /\ Packed
    /\ KernelUnderWay
    /\ Passed(1, 1)
    /\ get_cell(hist.gstart, 1, 1)
    /\ LiveNeighbours(Logical(hist.gstart, Rows, Cols), 1, 1) = 4
    /\ ~get_cell(grid, 1, 1)

\* the live cells, border included, of the packed grid g
LiveCells(g) == {p \in DenseIdx(Rows, Cols) : get_cell(g, p[1], p[2])}

\* the run was seeded with a blinker of centre (r, c)
BlinkerSeed(r, c) == LiveCells(hist.seed) \in {BlinkerV(r, c), BlinkerH(r, c)}

\* the blinker of centre (r, c) that is not the set live
Rotated(live, r, c) == IF live = BlinkerV(r, c) THEN BlinkerH(r, c) ELSE BlinkerV(r, c)

\* C11: in the in-place pool with two threads, seeded with a blinker through
\* the boundary between the two row ranges, after one update_grid the live
\* cells are exactly the rotated blinker and after two exactly the seed, for
\* every interleaving of the threads.
C11_Blinker ==
    (Packed /\ THREAD_COUNT = 2 /\ BetweenCalls) =>
        \A r \in BoundaryRows(Rows) : \A c \in 1 .. Cols - 2 :
            BlinkerSeed(r, c) =>
                /\ gens = 1 => LiveCells(grid) = Rotated(LiveCells(hist.seed), r, c)
                /\ gens = 2 => LiveCells(grid) = LiveCells(hist.seed)

\* C11 witness: an upright blinker with cells in the last row of thread 0
\* and the first of thread 1 is back after two calls, both threads having
\* written cells in the second.
C11_Witness ==
    /\ Packed /\ THREAD_COUNT = 2
    /\ pc[0] = "draw"
    /\ gens = 2
    /\ LiveCells(hist.seed) = BlinkerV(Rows \div 2, 2)
    /\ LiveCells(hist.gstart) = BlinkerH(Rows \div 2, 2)
    /\ hist.wr[0] # {} /\ hist.wr[1] # {}
    /\ LiveCells(grid) = LiveCells(hist.seed)

\* the live cells, border included, of the grid the run was seeded with and
\* of the grid as it is (curr in the dense variants)
SeedLive ==
    IF Packed THEN LiveCells(hist.seed) ELSE {p \in DOMAIN hist.seed : hist.seed[p]}

NowLive == IF Packed THEN LiveCells(grid) ELSE {p \in DOMAIN curr : curr[p]}

\* C12: seeded with no live cell, the grid has no live cell after any number
\* of update_grid calls; seeded with exactly one, it has none once one call
\* has returned.  For every number of threads and every interleaving, in
\* the in-place and in the double-buffered pool.
C12_DeadStaysDead ==
    BetweenCalls =>
        /\ SeedLive = {} => NowLive = {}
        /\ (Cardinality(SeedLive) = 1 /\ gens >= 1) => NowLive = {}

\* C12 witness: two threads, one live cell in the first row of thread 1's
\* range; the first call has returned, thread 1 wrote that cell, and no
\* cell is alive.
C12_Witness ==
    /\ THREAD_COUNT = 2
    /\ pc[0] = "draw"
    /\ gens = 1
    /\ SeedLive = {<<Rows \div 2, 0>>}
    /\ <<Rows \div 2, 0>> \in hist.wr[1]
    /\ NowLive = {}

\* the cells of the set live moved by dr rows and dc columns
Shifted(live, dr, dc) == {<<p[1] + dr, p[2] + dc>> : p \in live}

\* C13: in the in-place pool, seeded with a glider in an otherwise dead grid,
\* after exactly four update_grid calls the live cells are exactly the
\* glider moved by one row and one column, for 1, 2 and 4 threads and every
\* interleaving.
C13_Glider ==
    (Packed /\ BetweenCalls /\ gens = 4 /\ SeedLive \in Gliders(Rows, Cols)) =>
        NowLive = Shifted(SeedLive, 1, 1)

\* C13 witness: four threads, the fourth call has returned and the glider
\* seeded at (0, 0) is the glider at (1, 1).
C13_Witness ==
    /\ Packed /\ THREAD_COUNT = 4
    /\ pc[0] = "draw"
    /\ gens = 4
    /\ SeedLive = GliderAt(0, 0)
    /\ NowLive = GliderAt(1, 1)
    /\ \A t \in Workers : hist.done[t] = 1

\* update_grid was called in this pass of main's loop and has returned
UpdateReturned == iterate /\ pc[0] = (IF Packed THEN "draw" ELSE "copy_grid")

\* the logical grid handle_events left when update_grid was called: the
\* grid handle_events toggles is grid in non_double_buffer.c and curr_grid in
\* the dense variants
CallLogical == IF Packed THEN Logical(hist.gstart, Rows, Cols) ELSE hist.cstart

\* the logical grid handle_events and draw_grid work on
NowLogical == IF Packed THEN Logical(grid, Rows, Cols) ELSE curr

\* C14: when update_grid returns, the grid is the update rule applied to the
\* grid handle_events left at the call, toggled cells included, in
\* non_double_buffer.c, cond_double_buffer.c and double_buffer.c.
C14_ToggleCounts ==
    UpdateReturned =>
        NowLogical = st_update_grid(CallLogical, CallLogical, Rows, Cols)

\* create_threads has returned a pool in which a worker thread is missing
WorkerMissing == \E t \in Workers : pc[t] = "missing"

\* C15: when pthread_create fails inside create_threads the caller is told
\* that the pool could not be built, and update_grid is never started on a
\* pool in which a worker thread is missing.
C15_NoUpdateWithoutWorker == WorkerMissing => ~InUpdate

\* C16: from the same logical grid with a dead border and no toggles, after
\* every number k of generations the logical grid of cond_double_buffer.c
\* (update_grid then copy_grid(prev, curr)) is the logical grid k generations
\* of non_double_buffer.c give, and both are what the one-thread build of
\* non_double_buffer.c gives; outside update_grid and copy_grid the two dense
\* buffers agree.
C16_SameLogicalGrid ==
    BetweenCalls =>
        /\ NowLogical = Logical(hist.ref, Rows, Cols)
        /\ ~Packed => prev = curr

\* C16 witness: the dense pool with two threads has finished its fourth
\* generation and the copy, both threads wrote cells, and the glider it was
\* seeded with is where four generations of the packed pool put it.
C16_Witness ==
    /\ build.variant = "cdb" /\ THREAD_COUNT = 2
    /\ pc[0] = "draw"
    /\ gens = 4
    /\ SeedLive = GliderAt(0, 0)
    /\ hist.wr[0] # {} /\ hist.wr[1] # {}
    /\ LiveCells(hist.ref) = GliderAt(1, 1)
    /\ curr = Logical(hist.ref, Rows, Cols)

\* thread t's above and border buffers hold rows row_begin - 1 and row_end
\* of the grid update_grid was called on
SnapshotHeld(t) ==
    /\ params[t].above_buffer =
           copy_row(hist.gstart, get_byte_idx(params[t].row_begin - 1, -1))
    /\ params[t].border_buffer =
           copy_row(hist.gstart, get_byte_idx(params[t].row_end, -1))

\* thread t is at the head of sub_update's row loop for its first row
AtKernelStart(t) == pc[t] = "k_row" /\ ki[t] = params[t].row_begin

\* C17: in non_double_buffer.c, when update_grid is at its
\* pthread_cond_broadcast the above and border buffers of every thread hold
\* rows row_begin - 1 and row_end, and when a thread starts its kernel pass
\* of a generation its two buffers hold those rows as they were when
\* update_grid was called.
C17_SnapshotBeforeKernel ==
    /\ pc[0] = "broadcast" =>
           /\ grid = hist.gstart
           /\ \A t \in Threads : SnapshotHeld(t)
    /\ \A t \in Threads : (InUpdate /\ AtKernelStart(t)) => SnapshotHeld(t)

\* C17 witness: in the second generation the worker starts its pass after
\* thread 0 has changed the row above the worker's range; the worker's above
\* buffer holds the row as it was at the call, not as it is now.
C17_Witness ==
    /\ gens = 2
    /\ InUpdate
    /\ AtKernelStart(1)
    /\ SnapshotHeld(1)
    /\ params[1].above_buffer # copy_row(grid, get_byte_idx(params[1].row_begin - 1, -1))

\* the bytes of the grid that copy_row(dst, &grid[off]) reads
copy_row_reads(off) == {off + k : k \in 0 .. CELL_TOT_COL \div PACK - 1}

\* the bytes of the grid read for the row below in every row of the range
alive_below_reads_live(i, j, rend) ==
    {get_byte_idx(i + 1, j - 1), get_byte_idx(i + 1, j), get_byte_idx(i + 1, j + 1)}

\* the bytes of the grid that sub_update's count of the row below reads for
\* cell (i, j): those of three get_cell calls on row i + 1, or none when the
\* border buffer is read instead
alive_below_reads(i, j, rend) ==
    IF i < rend - 1
    THEN {get_byte_idx(i + 1, j - 1), get_byte_idx(i + 1, j), get_byte_idx(i + 1, j + 1)}
    ELSE {}

\* the bytes of the grid that thread t reads in the step of sub_update it is
\* at: the copy of row i at the head of the row loop; in the column loop the
\* row below and the cell's own byte (get_cell, and set_cell's update of it)
KernelReads(t) ==
    IF pc[t] = "k_row" THEN copy_row_reads(get_byte_idx(ki[t], -1))
    ELSE IF pc[t] = "k_col" /\ kj[t] # Cols
    THEN alive_below_reads(ki[t], kj[t], params[t].row_end)
           \cup {get_byte_idx(ki[t], kj[t])}
    ELSE {}

\* the bytes that hold the rows of thread t's range
OwnBytes(t) == UNION {copy_row_reads(get_byte_idx(i, -1)) : i \in RowRange(t)}

\* C18: in a kernel pass of non_double_buffer.c every byte a thread reads
\* from the grid belongs to a row of its own range (row i for the copy and
\* the cell itself, row i + 1 only while i < row_end - 1), so no thread reads
\* a byte of a row that another thread may write.
C18_ReadsOwnRows ==
    \A t \in Threads :
        /\ KernelReads(t) \subseteq OwnBytes(t)
        /\ \A u \in Threads \ {t} : KernelReads(t) \cap OwnBytes(u) = {}

\* C18 witness: thread 0 is in the last row of its range, where the row below
\* is the worker's, and reads its own row only, while the worker reads the
\* second row of its own range as the row below.
C18_Witness ==
    /\ pc[0] = "k_col" /\ kj[0] # Cols /\ ki[0] = params[0].row_end - 1
    /\ KernelReads(0) = {get_byte_idx(ki[0], kj[0])}
    /\ pc[1] = "k_col" /\ kj[1] # Cols /\ ki[1] = params[1].row_begin
    /\ get_byte_idx(ki[1] + 1, kj[1]) \in KernelReads(1)
    /\ hist.wr[0] # {} /\ hist.wr[1] # {}

\* thread t is in the column loop of sub_update, in a pass update_grid
\* started
InColumnLoop(t) == InUpdate /\ pc[t] = "k_col"

\* C19: in sub_update of non_double_buffer.c, from the start of the column
\* loop for row i to its end, curr holds row i and above holds row i - 1 as
\* they were when update_grid was called, the rows i + 1 .. row_end - 1 of
\* the range are as they were then, and at column j the cells (i, 0 .. j - 1)
\* hold their new state and the cells (i, j .. cols - 1) their old one.
C19_RowLoopInvariant ==
    \A t \in Threads : InColumnLoop(t) =>
        LET i == ki[t]
            j == kj[t]
            L == Logical(hist.gstart, Rows, Cols)
        IN  /\ params[t].current_buffer = copy_row(hist.gstart, get_byte_idx(i, -1))
            /\ params[t].above_buffer = copy_row(hist.gstart, get_byte_idx(i - 1, -1))
            /\ \A r \in i + 1 .. params[t].row_end - 1 : \A c \in 0 .. Cols - 1 :
                   get_cell(grid, r, c) = L[<<r, c>>]
            /\ \A c \in 0 .. j - 1 :
                   get_cell(grid, i, c) = Rule(L[<<i, c>>], LiveNeighbours(L, i, c))
            /\ \A c \in j .. Cols - 1 : get_cell(grid, i, c) = L[<<i, c>>]

\* C19 witness: the worker is in the middle of the second row of its range
\* in the second generation; the row before it and the cells before column
\* j have changed, and above holds that row's old contents, not the new.
C19_Witness ==
    /\ gens = 2
    /\ InColumnLoop(1)
    /\ ki[1] = params[1].row_begin + 1
    /\ kj[1] \in 1 .. Cols - 1
    /\ \E c \in 0 .. kj[1] - 1 : get_cell(grid, ki[1], c) # get_cell(hist.gstart, ki[1], c)
    /\ params[1].above_buffer # copy_row(grid, get_byte_idx(ki[1] - 1, -1))
    /\ params[1].above_buffer = copy_row(hist.gstart, get_byte_idx(ki[1] - 1, -1))

\* C20: in both pools, whenever update_grid is at its pthread_cond_broadcast,
\* in the first generation and in every later one, every spawned worker is
\* blocked in pthread_cond_wait, so that the broadcast wakes all of them.
C20_AllBlockedAtBroadcast ==
    (Pooled /\ pc[0] = "broadcast") => \A t \in Workers : pc[t] = "blocked"

\* C21: when pthread_cond_wait may return without a broadcast, still when
\* update_grid returns every thread has completed a pass for the generation,
\* the counter stays within 0 .. THREAD_COUNT - 1 until destroy_threads, and
\* the packed grid between calls is the grid of the one-thread run.
C21_ToleratesSpurious ==
    Pooled =>
        /\ UpdateReturned => \A t \in Threads : hist.done[t] >= 1
        /\ ~Destroyed => (0 <= signal /\ signal <= THREAD_COUNT - 1)
        /\ (Packed /\ BetweenCalls) => grid = hist.ref

\* the calling thread is in destroy_threads or past it
Destroying == pc[0] \in {"destroy", "destroy_broadcast", "join", "free", "done"}

\* C22: in both pools a worker woken by destroy_threads' broadcast exits
\* without running the kernel and without adding to signal, so that from the
\* call of destroy_threads on the grid and the counter stay as they were at
\* the call (the grid of the last generation, prev and curr equal in the
\* dense pool, signal 0); running is true until destroy_threads stores false
\* and false ever after.
C22_DestroyLeavesState ==
    Pooled =>
        /\ Destroying =>
               /\ \A t \in Workers : ~InKernel(t) /\ pc[t] # "signal"
               /\ signal = 0
               /\ Packed => grid = hist.ref
               /\ ~Packed => curr = prev
        /\ running = (pc[0] \notin {"destroy_broadcast", "join", "free", "done"})

\* the positions of thread_execution's lock, wait and unlock
AtCondVar(t) == pc[t] \in {"lock", "wait", "blocked", "woken", "unlock"}

\* the workers that have finished their pass of this generation and done
\* their atomic_fetch_add
Signalled == {t \in Workers : hist.done[t] = 1 /\ pc[t] # "signal"}

\* C23: in non_double_buffer.c, until destroy_threads broadcasts: the calling
\* thread is never at the condition variable; a worker is in its kernel only
\* after the broadcast of the generation and before it has finished a pass
\* of it; every thread writes only rows of its own range; signal counts the
\* workers that have finished their pass, one increment for each, made after
\* the pass; and when update_grid has returned every thread has made exactly
\* one pass.
C23_OnePassEach ==
    /\ ~AtCondVar(0)
    /\ \A t \in Threads : \A w \in hist.wr[t] : w[1] \in RowRange(t)
    /\ ~Destroyed =>
           /\ \A t \in Workers :
                  /\ InKernel(t) => pc[0] \in {"k_row", "k_col", "cas"} /\ hist.done[t] = 0
                  /\ pc[t] = "signal" => hist.done[t] = 1
           /\ \A t \in Threads : hist.done[t] <= 1
           /\ InUpdate => signal = Cardinality(Signalled)
           /\ (BetweenCalls /\ gens >= 1) => \A t \in Threads : hist.done[t] = 1

\* C23 witness: in the second generation the calling thread has finished
\* range 0 and spins on the counter, which the worker has raised after its
\* pass over range 1.
C23_Witness ==
    /\ gens = 2
    /\ pc[0] = "cas"
    /\ pc[1] = "check"
    /\ signal = 1
    /\ Signalled = {1}
    /\ hist.done[0] = 1
    /\ \E w \in hist.wr[1] : w[1] = params[1].row_end - 1
    /\ \E w \in hist.wr[0] : w[1] = params[0].row_begin

\* the threads, the calling thread included, that have finished their pass
\* of this generation and are past the increment that follows it, if any
Finished == {t \in Threads : hist.done[t] = 1 /\ pc[t] # "signal"}

\* C24 as stated: in both pools, during update_grid the counter has been
\* raised once by every thread that has finished its row range, the calling
\* thread included, and never exceeds THREAD_COUNT.
C24_CounterCountsAll ==
    (Pooled /\ InUpdate) =>
        /\ signal = Cardinality(Finished)
        /\ signal <= THREAD_COUNT

\* C24 amended: in both pools the counter is raised once by every spawned
\* worker that has finished its row range and not by the calling thread; it
\* never exceeds THREAD_COUNT - 1 before destroy_threads; and update_grid
\* returns only when every spawned worker has raised it, leaving it 0.
C24_CounterCountsSpawned ==
    Pooled =>
        /\ InUpdate => signal = Cardinality(Signalled)
        /\ ~Destroyed => signal <= THREAD_COUNT - 1
        /\ UpdateReturned =>
               /\ Signalled = Workers
               /\ signal = 0

\* C24 witness: in the dense pool's second generation the calling thread
\* has finished range 0 and is in the compare-and-swap loop with the counter
\* at THREAD_COUNT - 1, raised by the worker alone.
C24_Witness ==
    /\ build.variant = "cdb"
    /\ gens = 2
    /\ pc[0] = "cas"
    /\ hist.done[0] = 1
    /\ Signalled = Workers
    /\ signal = THREAD_COUNT - 1
    /\ Cardinality(Finished) = THREAD_COUNT

\* the three row buffers of params[k]
Buffers(k) ==
    <<params[k].above_buffer, params[k].current_buffer, params[k].border_buffer>>

\* thread t is the one that takes the step
Stepped(t) == pc'[t] # pc[t] \/ ki'[t] # ki[t] \/ kj'[t] # kj[t]

\* a step that changes a buffer of params[k] is a step of thread k inside its
\* kernel, or the pass for params[k] of update_grid's snapshot loop
BufferWrittenByOwner ==
    \A k \in Threads :
        Buffers(k)' # Buffers(k) =>
            \/ InKernel(k) /\ Stepped(k)
            \/ pc[0] = "snapshot" /\ di = k /\ di' = k + 1

\* C25: in non_double_buffer.c, while update_grid is in its snapshot loop no
\* worker is in its kernel, and the buffers of params[k] are changed only by
\* that loop and by the thread that runs range k, inside its kernel.
C25_BuffersOwned ==
    /\ [](pc[0] = "snapshot" => \A t \in Workers : ~InKernel(t))
    /\ [][BufferWrittenByOwner]_vars

\* C25 witness: in the second generation's snapshot loop the buffers of the
\* worker have just been refilled by the calling thread while the worker,
\* which changed them in the first generation, waits.
C25_Witness ==
    /\ gens = 2
    /\ pc[0] = "broadcast"
    /\ pc[1] = "blocked"
    /\ hist.gstart # hist.seed
    /\ SnapshotHeld(1)
    /\ params[1].current_buffer = copy_row(grid, get_byte_idx(params[1].row_begin, -1))

\* destroy_threads is at or past its first free: the row buffers, the
\* condition variable, the mutex, the flag and the counter are being
\* released or are released, and main's free of the grid follows
Releasing == pc[0] \in {"free", "done"}

\* C26: in both pools, once destroy_threads has started to release the
\* buffers and the synchronisation objects (and main, after it, the grid),
\* every spawned worker has returned from thread_execution, so that no worker
\* touches any of them afterwards.
C26_ReleasedAfterJoin ==
    (Pooled /\ Releasing) => \A t \in Workers : pc[t] = "exited"

\* C26 witness: the in-place pool has been torn down after a generation; the
\* worker was woken by destroy_threads' broadcast, made one more pass over
\* its rows and returned before anything was released.
C26_Witness ==
    /\ Packed
    /\ pc[0] = "done"
    /\ gens >= 1
    /\ ~running
    /\ \A t \in Workers : pc[t] = "exited" /\ hist.done[t] = 2

\* the outer layer of the grid: row -1, row rows, column -1, column cols
BorderCells ==
    {p \in (-1 .. Rows) \X (-1 .. Cols) : p[1] \in {-1, Rows} \/ p[2] \in {-1, Cols}}

\* C27: every cell of the outer layer (row -1, row rows, column -1, column
\* cols) is dead after create_grid and in every reachable state, in the
\* packed grid and in both dense grids: no kernel, no copy_grid and no mouse
\* click writes one.
C27_BorderStaysDead ==
    \A p \in BorderCells :
        IF Packed THEN ~get_cell(grid, p[1], p[2]) ELSE ~curr[p] /\ ~prev[p]

\* C27 witness: in the in-place build a click has been applied and a
\* generation is complete in which a kernel left a live cell in the last
\* column, next to the border column, and one in the first row, next to the
\* border row.
C27_Witness ==
    /\ Packed
    /\ UpdateReturned
    /\ toggles = 1
    /\ \E t \in Threads : \E w \in hist.wr[t] : w[2] = Cols - 1 /\ get_cell(grid, w[1], w[2])
    /\ \E t \in Threads : \E w \in hist.wr[t] : w[1] = 0 /\ get_cell(grid, w[1], w[2])

\* the calling thread is inside update_grid of double_buffer.c
InDbUpdate == build.variant = "db" /\ pc[0] \in {"spawn", "k_cell", "join"}

\* update_grid of double_buffer.c has returned in this pass of main's loop
DbReturned == build.variant = "db" /\ UpdateReturned

\* at a return of double_buffer.c's update_grid: every created thread has
\* been joined, every thread has made exactly one pass over its range, and
\* where curr equalled prev on the interior at the call, curr is what
\* single_threaded.c's update_grid leaves from the same curr and prev
DbReturnState ==
    DbReturned =>
        /\ \A t \in Workers : pc[t] = "none"
        /\ \A t \in Threads : hist.done[t] = 1
        /\ (\A p \in Cells : hist.cstart[p] = hist.gstart[p])
              => curr = st_update_grid(hist.cstart, hist.gstart, Rows, Cols)

\* C28: double_buffer.c's update_grid runs range 0 on the calling thread and
\* the other ranges on the threads it creates, joins each of them before it
\* returns, and always returns; at the return every range has been computed
\* once and, where curr equalled prev on the interior at the call, curr is
\* the curr single_threaded.c's update_grid writes, whatever the
\* interleaving of the threads.
C28_DbRefinesSingle ==
    /\ [](InDbUpdate /\ pc[0] # "spawn" => \A t \in Workers : pc[t] \in {"k_cell", "exited", "none"})
    /\ []DbReturnState
    /\ (InDbUpdate ~> DbReturned)

\* C28 witness: the second update_grid call of double_buffer.c has returned;
\* curr equalled prev on the interior at the call and the call changed it.
C28_Witness ==
    /\ DbReturned
    /\ gens = 2
    /\ \A p \in Cells : hist.cstart[p] = hist.gstart[p]
    /\ curr # hist.cstart
    /\ curr = st_update_grid(hist.cstart, hist.gstart, Rows, Cols)
    /\ \A t \in Threads : hist.done[t] = 1

\* the calling thread is inside update_grid of a dense variant
InDenseGeneration == ~Packed /\ (InUpdate \/ InDbUpdate)

\* thread t is about to run the body of a dense kernel's column loop
AtDenseCell(t) == ~Packed /\ pc[t] = "k_cell"

\* a step of the dense variants: prev is left alone inside update_grid; a
\* kernel step of thread t is on a cell of t's own range and leaves curr as
\* it was but for that cell, which it either leaves alone or sets to the rule
\* applied to prev, whatever curr holds; curr changes in a kernel step or in
\* handle_events only
DenseStep ==
    /\ InDenseGeneration => prev' = prev
    /\ \A t \in Threads : (AtDenseCell(t) /\ Stepped(t)) =>
          /\ ki[t] \in RowRange(t)
          /\ kj[t] \in 0 .. Cols - 1
          /\ curr' = IF dense_cell_writes(prev, ki[t], kj[t])
                     THEN [curr EXCEPT ![<<ki[t], kj[t]>>] =
                               Rule(prev[<<ki[t], kj[t]>>], LiveNeighbours(prev, ki[t], kj[t]))]
                     ELSE curr
    /\ (~Packed /\ curr' # curr) =>
          \/ \E t \in Threads : AtDenseCell(t) /\ Stepped(t)
          \/ pc[0] = "events"

\* C29: in cond_double_buffer.c and double_buffer.c, from the call of
\* update_grid to its return no step writes prev and no kernel step depends
\* on curr: a kernel step reads prev only and writes only the cell of curr it
\* is at, in its own row range; copy_grid(prev, curr) runs on the calling
\* thread only while no other thread is inside its kernel.
C29_PrevReadCurrWritten ==
    /\ []((~Packed /\ pc[0] = "copy_grid") => \A t \in Workers : pc[t] # "k_cell")
    /\ [][DenseStep]_vars

\* C29 witness: in the second generation of the dense pool the calling thread
\* waits at the compare-and-swap while the worker, mid-range, has written
\* curr; prev is what it was at the call and curr differs from it.
C29_Witness ==
    /\ build.variant = "cdb"
    /\ gens = 2
    /\ pc[0] = "cas"
    /\ \E t \in Workers : AtDenseCell(t) /\ hist.wr[t] # {} /\ kj[t] > 0
    /\ prev = hist.gstart
    /\ curr # prev

\* the bytes of the grid that hold a cell of physical row r
RowBytesOf(r) == {get_byte_idx(r, c) : c \in -1 .. Cols}

\* C30: after copy_row(buf, &grid[get_byte_idx(r, -1)]), for any row r in
\* [-1, rows], get_cell_from_row(buf, c) is get_cell(grid, r, c) of the grid
\* the copy was made from, for every column c in [-1, cols]; the bytes copied
\* are those of row r, both border cells included, and no byte of another
\* row; set_cell calls on the grid after the copy leave buf as it was.
C30_RowCopy ==
    hist.copied =>
        LET buf == params[0].current_buffer
            off == get_byte_idx(hist.row, -1)
        IN  /\ \A c \in -1 .. Cols :
                  get_cell_from_row(buf, c) = get_cell(hist.at, hist.row, c)
            /\ DOMAIN buf = 0 .. CELL_TOT_COL \div PACK - 1
            /\ \A k \in DOMAIN buf : buf[k] = hist.at[off + k]
            /\ copy_row_reads(off) = RowBytesOf(hist.row)
            /\ \A r \in (-1 .. Rows) \ {hist.row} : copy_row_reads(off) \cap RowBytesOf(r) = {}

\* C30 witness: row 0 of a build with two-byte rows was copied while it held
\* live cells in both bytes, its last border cell among them, and a set_cell
\* on that row after the copy changed the grid but not the buffer.
C30_Witness ==
    /\ hist.copied
    /\ CELL_TOT_COL = 2 * PACK
    /\ hist.row = 0
    /\ get_cell_from_row(params[0].current_buffer, Cols)
    /\ get_cell_from_row(params[0].current_buffer, 0)
    /\ \E c \in -1 .. Cols : get_cell(grid, hist.row, c) # get_cell(hist.at, hist.row, c)

\* every coordinate of the packed grid, border included
AllCoords == (-1 .. Rows) \X (-1 .. Cols)

\* C31: in the packed encoding set_cell(grid, row, col, v) changes at most
\* the addressed cell: get_cell of every other coordinate of
\* [-1, rows] x [-1, cols] is what it was before the call, and a call that
\* sets a cell to the value it already has leaves every byte as it was.
C31_SetCellFrame ==
    hist.n >= 1 =>
        /\ \A p \in AllCoords \ {<<hist.row, hist.col>>} :
              get_cell(grid, p[1], p[2]) = get_cell(hist.before, p[1], p[2])
        /\ get_cell(hist.before, hist.row, hist.col) = hist.val => grid = hist.before
        /\ DOMAIN grid = DOMAIN hist.before

\* C31 witness: in a two-byte row whose cells are all alive, the first cell
\* of the second byte was set dead: it reads dead, its neighbours in the
\* same byte and in the byte before still read alive.
C31_Witness ==
    /\ hist.n >= 1
    /\ CELL_TOT_COL = 2 * PACK
    /\ hist.row = 0
    /\ hist.col = PACK - CELL_COL_OFFSET
    /\ ~hist.val
    /\ get_cell(hist.before, hist.row, hist.col)
    /\ ~get_cell(grid, hist.row, hist.col)
    /\ get_cell(grid, hist.row, hist.col - 1)
    /\ get_cell(grid, hist.row, hist.col + 1)

\* the bytes calloc gives create_grid: outer_rows * outer_cols of them
Allocation == 0 .. (CELL_TOT_ROW * CELL_TOT_COL) \div PACK - 1

\* where cell p is kept: its byte index and its bit index
BitOf(p) == <<get_byte_idx(p[1], p[2]), get_bit_idx(p[2])>>

\* the grid of the allocation's size with no bit set
ZeroGrid == [k \in Allocation |-> 0]

\* C32: for every row in [-1, CELL_ROW_COUNT] and column in
\* [-1, CELL_COL_COUNT] the byte index set_cell and get_cell use lies inside
\* the CELL_TOT_ROW * CELL_TOT_COL / 8 bytes allocated, the bit index lies in
\* 0 .. 7 (column -1 included, with C's truncating remainder), and no two
\* cells share a byte index and bit index; set_cell, get_cell and
\* get_cell_from_row use that byte and that bit.
C32_IndexInBounds ==
    /\ DOMAIN grid = Allocation
    /\ \A p \in AllCoords :
          /\ get_byte_idx(p[1], p[2]) \in Allocation
          /\ get_byte_idx(p[1], p[2]) =
                (p[1] + 1) * (CELL_TOT_COL \div 8) + (p[2] + 1) \div 8
          /\ get_bit_idx(p[2]) \in 0 .. 7
          /\ set_cell(ZeroGrid, p[1], p[2], TRUE) =
                [ZeroGrid EXCEPT ![get_byte_idx(p[1], p[2])] = 2 ^ get_bit_idx(p[2])]
          /\ get_cell(grid, p[1], p[2]) =
                BitTest(grid[get_byte_idx(p[1], p[2])], get_bit_idx(p[2]))
          /\ get_cell_from_row(copy_row(grid, get_byte_idx(p[1], -1)), p[2]) =
                BitTest(grid[get_byte_idx(p[1], p[2])], get_bit_idx(p[2]))
    /\ \A p, q \in AllCoords : BitOf(p) = BitOf(q) => p = q

\* C32 witness: in a build with two-byte rows the first border cell (column
\* -1) of the last row, the border row below the grid, was set alive: it is
\* bit 0 of the first byte of the last row of the allocation, and reads
\* alive.
C32_Witness ==
    /\ hist.n >= 1
    /\ CELL_TOT_COL = 2 * PACK
    /\ hist.row = Rows
    /\ hist.col = -1
    /\ hist.val
    /\ BitOf(<<hist.row, hist.col>>) = <<(CELL_TOT_ROW - 1) * 2, 0>>
    /\ grid[(CELL_TOT_ROW - 1) * 2] = 1
    /\ get_cell(grid, Rows, -1)

\* whether cell p is alive in the grid g main started from, packed or dense
SeedAlive(p) == IF Packed THEN get_cell(hist.seed, p[1], p[2]) ELSE hist.seed[p]

\* C33: the grid main starts from is a parity pattern with a dead border:
\* create_grid of non_double_buffer.c leaves cell (i, j) alive exactly when
\* row i is odd (row 0, where i - 1 wraps around, is dead), create_grid of
\* the dense variants exactly when column j is odd, and every border cell is
\* dead; in main's loop, before the first click and the first generation, the
\* grid (curr and prev in the dense variants) is that pattern.
C33_ParityPattern ==
    /\ \A p \in AllCoords :
          SeedAlive(p) = (p \in Cells /\ (IF Packed THEN p[1] ELSE p[2]) % 2 = 1)
    /\ (gens = 0 /\ toggles = 0 /\ pc[0] \in {"events", "copy_grid", "draw"}) =>
          IF Packed THEN grid = hist.seed ELSE (curr = hist.seed /\ prev = hist.seed)

\* C33 witness: non_double_buffer.c right after create_grid, before any
\* event: row 0 is dead, rows 1 and 3 are alive from the first to the last
\* column, row 2 is dead.
C33_Witness ==
    /\ Packed
    /\ pc[0] = "events"
    /\ gens = 0
    /\ toggles = 0
    /\ ~iterate
    /\ Rows = 4
    /\ \A c \in 0 .. Cols - 1 :
          /\ ~get_cell(grid, 0, c)
          /\ get_cell(grid, 1, c)
          /\ ~get_cell(grid, 2, c)
          /\ get_cell(grid, 3, c)

=============================================================================
